---- MODULE Spec2Model ----
(***************************************************************************)
(* Model of python_bot/analyzer.py: price parsing, implied probability,    *)
(* the per-match prediction pipeline of analyze_matches and the ranking;   *)
(* of the cache of main.py (_load_match_data), of LiveMonitor.run, of      *)
(* _request_with_retry of fetcher.py and of listen_for_owner_commands.     *)
(*                                                                         *)
(* Numbers.  Python floats are modelled by exact rationals.  A price is a  *)
(* pair n/d; form statistics are integers in fixed units (rates in         *)
(* percent, goal averages in hundredths) and a strength is an integer in   *)
(* units of 1/Scale.  round() is Python's round-half-to-even.              *)
(*                                                                         *)
(* Text.  A raw label or market name is a string of a fixed vocabulary;    *)
(* _normalize_label is the table of what it does to each of them, and the  *)
(* substring tests of _is_over_25_label are tabulated over the vocabulary. *)
(***************************************************************************)
EXTENDS Integers, Sequences, FiniteSets, TLC

VARIABLES
    odd,                 \* probe: argument of _calculate_probability
    probability,         \* probe: its return value, -1 before the call
    matches,             \* analyze_matches: the input list
    idx,                 \* index of the match the for-loop is at
    pc,                  \* position inside analyze_matches
    predictions,         \* entry["predictions"] of the current match
    source,              \* history: which stage wrote each field last
    forebet_used,
    api_prediction_used,
    recommendations,
    confidence_score,
    notes,
    qualitative_boost,
    analyzed,            \* the list `analyzed`
    result,              \* the returned dictionary
    call,                \* analyze_matches: 1 in the first call, 2 in a repeat
    first,               \* the dictionary the first call returned
    now,                 \* main.py: the clock, in hours
    cache_dir,           \* whether _load_match_data is given a cache_dir
    cache_files,         \* the file fixtures_<date>.json of each date
    calls,               \* number of _load_match_data calls made
    date,                \* the date of the last call
    fetched,             \* what fetch_matches did in the last call
    ret,                 \* what the last call returned or raised
    last_stored,         \* history: the data last written for each date
    min_rank,            \* LiveMonitor.min_rank
    _sent_flags,         \* LiveMonitor._sent_flags: fixture -> set of flags
    _score_cache,        \* LiveMonitor._score_cache: fixture -> <<home, away>>
    _analysis_counts,    \* LiveMonitor._analysis_counts: fixture -> alerts sent
    scans,               \* number of iterations of run started
    live,                \* analyzed_matches of the current iteration
    pos,                 \* index of the match the for-loop of run is at
    mpc,                 \* position inside run: "wait", "alert" or "send"
    alert,               \* what the last _should_alert call returned
    observed,            \* history: the match of the last call, per fixture
    delivered,           \* history: alerts sent per fixture since it came in
    removed,             \* history: fixtures the last _cleanup_finished removed
    max_retries,         \* _request_with_retry: the argument max_retries
    attempt,
    wait_seconds,
    rpc,                 \* position: "request", "returned" or "raised"
    replies,             \* history: what each requests.get call gave
    slept,               \* history: the arguments of the time.sleep calls
    caller_gets,         \* what the caller of _request_with_retry gets
    telegram_owner_id,   \* settings of listen_for_owner_commands
    telegram_admin_ids,
    telegram_channel_id, \* whether a channel is configured
    allowed_ids,
    offset,              \* -1 for None
    inbox,               \* payload["result"] of the current poll
    upos,                \* index of the update the for-loop is at
    opc,                 \* position inside listen_for_owner_commands
    polls,               \* number of getUpdates calls made
    did                  \* history: what handling the last update did

vars == <<odd, probability, matches, idx, pc, predictions, source,
          forebet_used, api_prediction_used, recommendations,
          confidence_score, notes, qualitative_boost, analyzed, result,
          call, first,
          now, cache_dir, cache_files, calls, date, fetched, ret, last_stored,
          min_rank, _sent_flags, _score_cache, _analysis_counts, scans, live,
          pos, mpc, alert, observed, delivered, removed,
          max_retries, attempt, wait_seconds, rpc, replies, slept, caller_gets,
          telegram_owner_id, telegram_admin_ids, telegram_channel_id,
          allowed_ids, offset, inbox, upos, opc, polls, did>>

analyzerVars ==
    <<odd, probability, matches, idx, pc, predictions, source,
      forebet_used, api_prediction_used, recommendations,
      confidence_score, notes, qualitative_boost, analyzed, result,
      call, first>>

cacheVars ==
    <<now, cache_dir, cache_files, calls, date, fetched, ret, last_stored>>

monitorVars ==
    <<min_rank, _sent_flags, _score_cache, _analysis_counts, scans, live,
      pos, mpc, alert, observed, delivered, removed>>

retryVars ==
    <<max_retries, attempt, wait_seconds, rpc, replies, slept, caller_gets>>

ownerVars ==
    <<telegram_owner_id, telegram_admin_ids, telegram_channel_id,
      allowed_ids, offset, inbox, upos, opc, polls, did>>

\* the variables of the components other than the analyzer
elsewhere == <<cacheVars, monitorVars, retryVars, ownerVars>>

(***************************************************************************)
(* Arithmetic helpers                                                      *)
(***************************************************************************)
Abs(x) == IF x < 0 THEN -x ELSE x

Min2(a, b) == IF a <= b THEN a ELSE b

Max2(a, b) == IF a >= b THEN a ELSE b

Max3(a, b, c) == Max2(a, Max2(b, c))

Clamp(lo, hi, x) == Max2(lo, Min2(hi, x))

\* floor(a / b) for b > 0 and any integer a
FloorDiv(a, b) == IF a >= 0 THEN a \div b ELSE -((-a + b - 1) \div b)

\* Python round(a / b) for b > 0: nearest integer, ties to the even one
PyRound(a, b) ==
    LET q == FloorDiv(a, b)
        r == a - q * b
    IN  IF 2 * r < b THEN q
        ELSE IF 2 * r > b THEN q + 1
        ELSE IF q % 2 = 0 THEN q ELSE q + 1

(***************************************************************************)
(* Prices.  kind "none": None; "num": the int/float a/b; "str": the text   *)
(* of the signed decimal a/b ("-2.50"); "frac": the text "a/b"; "text": a  *)
(* text without any digit.                                                 *)
(***************************************************************************)
NonePrice == [kind |-> "none", a |-> 0, b |-> 1]

NoValue == [ok |-> FALSE, n |-> 0, d |-> 1]

Value(n, d) == [ok |-> TRUE, n |-> n, d |-> d]

\* re.search(r"\d+(?:\.\d+)?", text): the first number of the text; a sign
\* in front of it is not part of the match.
FirstNumber(p) ==
    IF p.kind = "str" THEN Value(Abs(p.a), p.b) ELSE Value(Abs(p.a), 1)

PositiveOrNone(v) == IF v.ok /\ v.n > 0 THEN v ELSE NoValue

_normalize_odd_value(p) ==
    CASE p.kind = "none" -> NoValue
      [] p.kind = "num"  -> PositiveOrNone(Value(p.a, p.b))
      [] p.kind = "text" -> NoValue
      [] p.kind = "frac" ->
            IF p.b > 0
            THEN PositiveOrNone(Value(p.b + p.a, p.b))
            ELSE PositiveOrNone(FirstNumber(p))
      [] p.kind = "str"  -> PositiveOrNone(FirstNumber(p))

_calculate_probability(p) ==
    LET value == _normalize_odd_value(p)
    IN  IF ~value.ok \/ value.n <= 0 THEN 0
        ELSE PyRound(100 * value.d, value.n)

(***************************************************************************)
(* Labels and market names                                                 *)
(***************************************************************************)
HOME_LABELS == {"home", "1", "home team", "team 1", "1 home"}

DRAW_LABELS == {"draw", "x", "empate"}

AWAY_LABELS == {"away", "2", "away team", "team 2", "2 away"}

YES_LABELS == {"yes", "sim", "y", "s"}

NO_LABELS == {"no", "nao", "n"}

MatchWinnerAliases ==
    {"match winner", "1x2", "full time result", "match result", "result",
     "win-draw-win"}

OverUnderAliases ==
    {"goals over/under", "over/under", "goals", "goals o/u", "total goals"}

BttsAliases ==
    {"both teams score", "both teams to score", "btts", "gg/ng", "goal goal"}

\* NFD + drop accents, "," -> ".", "(" ")" -> " ", collapse blanks, strip,
\* lower: what _normalize_label returns for each text of the vocabulary.
\* "" stands for None as well.
_normalize_label(text) ==
    CASE text = ""              -> ""
      [] text = "Home"          -> "home"
      [] text = "Draw"          -> "draw"
      [] text = "Away"          -> "away"
      [] text = " 1 "           -> "1"
      [] text = "X"             -> "x"
      [] text = "2"             -> "2"
      [] text = "Empate"        -> "empate"
      [] text = "Yes"           -> "yes"
      [] text = "No"            -> "no"
      [] text = "Sim"           -> "sim"
      [] text = "Não"           -> "nao"
      [] text = "Over 2.5"      -> "over 2.5"
      [] text = "Under 2.5"     -> "under 2.5"
      [] text = "Mais de 2,5"   -> "mais de 2.5"
      [] text = "Menos de 2,5"  -> "menos de 2.5"
      [] text = "Over 3.5"      -> "over 3.5"
      [] text = "Under 1.5"     -> "under 1.5"
      [] text = "Foo"           -> "foo"
      [] text = "Match Winner"  -> "match winner"
      [] text = "1X2"           -> "1x2"
      [] text = "Goals Over/Under" -> "goals over/under"
      [] text = "Total Goals"   -> "total goals"
      [] text = "Both Teams Score" -> "both teams score"
      [] text = "BTTS"          -> "btts"
      [] text = "Corners"       -> "corners"
      [] OTHER                  -> text

_normalize_market_name(value) ==
    LET normalized == _normalize_label(value)
    IN  IF normalized = "" THEN ""
        ELSE IF normalized \in MatchWinnerAliases THEN "match_winner"
        ELSE IF normalized \in OverUnderAliases THEN "goals_over_under"
        ELSE IF normalized \in BttsAliases THEN "both_teams_score"
        ELSE normalized

\* the normalized labels of the vocabulary that contain the given substring
ContainsOver == {"over 2.5", "over 3.5"}

ContainsMaisDe == {"mais de 2.5"}

ContainsUnder == {"under 2.5", "under 1.5"}

ContainsMenosDe == {"menos de 2.5"}

ContainsLine == {"over 2.5", "under 2.5", "mais de 2.5", "menos de 2.5"}

_is_over_25_label(value) ==
    LET normalized == _normalize_label(value)
    IN  IF normalized = "" THEN FALSE
        ELSE IF normalized \in ContainsOver \/ normalized \in ContainsMaisDe
             THEN normalized \in ContainsLine
        ELSE FALSE

_is_under_25_label(value) ==
    LET normalized == _normalize_label(value)
    IN  IF normalized = "" THEN FALSE
        ELSE IF normalized \in ContainsUnder \/ normalized \in ContainsMenosDe
             THEN normalized \in ContainsLine
        ELSE FALSE

(***************************************************************************)
(* analyze_matches: the entry and the market-odds stage                    *)
(***************************************************************************)
Fields ==
    {"homeWinProbability", "drawProbability", "awayWinProbability",
     "over25Probability", "under25Probability",
     "bttsYesProbability", "bttsNoProbability"}

ZeroPredictions == [f \in Fields |-> 0]

NoSource == [f \in Fields |-> "none"]

NewEntryWithNotes(i) ==
    [id |-> i, region |-> matches[i].region,
     predictions |-> ZeroPredictions, recommendedBets |-> << >>,
     confidence |-> "low",
     analysisNotes |-> IF matches[i].forebet.present
                       THEN <<"forebet">> ELSE << >>]

\* lines 138-152: {**match, ...}; of the keys copied from the match the entry
\* keeps competition.region, and id is the position of the match in the list
NewEntry(i) ==
    [id |-> i, region |-> matches[i].region,
     predictions |-> ZeroPredictions, recommendedBets |-> << >>,
     confidence |-> "low", analysisNotes |-> << >>]

\* lines 159-173: the values of the first market of that canonical name whose
\* list is not empty (an empty list stored earlier is replaced)
RECURSIVE MarketLookupLast(_, _, _, _)
MarketLookupLast(odds, i, name, found) ==
    IF i > Len(odds) THEN found
    ELSE IF _normalize_market_name(odds[i].name) = name /\ odds[i].values # << >>
         THEN MarketLookupLast(odds, i + 1, name, odds[i].values)
         ELSE MarketLookupLast(odds, i + 1, name, found)

RECURSIVE MarketLookupFrom(_, _, _, _)
MarketLookupFrom(odds, i, name, found) ==
    IF i > Len(odds) THEN found
    ELSE IF _normalize_market_name(odds[i].name) = name /\ found = << >>
         THEN MarketLookupFrom(odds, i + 1, name, odds[i].values)
         ELSE MarketLookupFrom(odds, i + 1, name, found)

MarketLookup(odds, name) == MarketLookupFrom(odds, 1, name, << >>)

\* lines 182-190
RECURSIVE ApplyMatchWinner(_, _, _)
ApplyMatchWinner(values, i, pred) ==
    IF i > Len(values) THEN pred
    ELSE LET label == _normalize_label(values[i].value)
             p     == _calculate_probability(values[i].odd)
         IN  ApplyMatchWinner(values, i + 1,
               IF label \in HOME_LABELS
               THEN [pred EXCEPT !["homeWinProbability"] = p]
               ELSE IF label \in DRAW_LABELS
               THEN [pred EXCEPT !["drawProbability"] = p]
               ELSE IF label \in AWAY_LABELS
               THEN [pred EXCEPT !["awayWinProbability"] = p]
               ELSE pred)

\* lines 192-198
RECURSIVE ApplyOverUnder(_, _, _)
ApplyOverUnder(values, i, pred) ==
    IF i > Len(values) THEN pred
    ELSE LET p == _calculate_probability(values[i].odd)
         IN  ApplyOverUnder(values, i + 1,
               IF _is_over_25_label(values[i].value)
               THEN [pred EXCEPT !["over25Probability"] = p]
               ELSE IF _is_under_25_label(values[i].value)
               THEN [pred EXCEPT !["under25Probability"] = p]
               ELSE pred)

\* lines 200-206
RECURSIVE ApplyBtts(_, _, _)
ApplyBtts(values, i, pred) ==
    IF i > Len(values) THEN pred
    ELSE LET label == _normalize_label(values[i].value)
             p     == _calculate_probability(values[i].odd)
         IN  ApplyBtts(values, i + 1,
               IF label \in YES_LABELS
               THEN [pred EXCEPT !["bttsYesProbability"] = p]
               ELSE IF label \in NO_LABELS
               THEN [pred EXCEPT !["bttsNoProbability"] = p]
               ELSE pred)

ApplyMarkets(odds, pred) ==
    ApplyBtts(MarketLookup(odds, "both_teams_score"), 1,
      ApplyOverUnder(MarketLookup(odds, "goals_over_under"), 1,
        ApplyMatchWinner(MarketLookup(odds, "match_winner"), 1, pred)))

\* history: the stage that changed a field is its source
Stamp(old, new, src, stage) ==
    [f \in Fields |-> IF new[f] # old[f] THEN stage ELSE src[f]]

(***************************************************************************)
(* Third-party (forebet) and vendor (apiFootballPrediction) stages.  A     *)
(* percentage is [kind, v]: "none" is None, "text" a string float() cannot *)
(* parse, "num" the number v/10.                                           *)
(***************************************************************************)
\* lines 211-220 and 233-242: the body of _apply_forebet and of
\* _apply_api_prediction
ApplyValueAlways(pred, value, key) ==
    IF value.kind # "num" THEN pred
    ELSE LET number == PyRound(value.v, 10)
         IN  IF number > 0
             THEN [pred EXCEPT ![key] = Max2(0, Min2(100, number))]
             ELSE pred

ApplyValueUnclamped(pred, value, key) ==
    IF value.kind # "num" THEN pred
    ELSE LET number == PyRound(value.v, 10)
         IN  IF pred[key] = 0 /\ number > 0
             THEN [pred EXCEPT ![key] = number]
             ELSE pred

ApplyValue(pred, value, key) ==
    IF value.kind # "num" THEN pred
    ELSE LET number == PyRound(value.v, 10)
         IN  IF pred[key] = 0 /\ number > 0
             THEN [pred EXCEPT ![key] = Max2(0, Min2(100, number))]
             ELSE pred

\* the order of the seven calls, lines 222-228
FieldOrder ==
    <<"homeWinProbability", "drawProbability", "awayWinProbability",
      "over25Probability", "under25Probability",
      "bttsYesProbability", "bttsNoProbability">>

RECURSIVE ApplyValues(_, _, _, _)
ApplyValues(pred, values, keys, i) ==
    IF i > Len(keys) THEN pred
    ELSE ApplyValues(ApplyValue(pred, values[keys[i]], keys[i]), values,
                     keys, i + 1)

_apply_forebet(pred, forebet) ==
    IF ~forebet.present THEN pred
    ELSE ApplyValues(pred, forebet.values, FieldOrder, 1)

\* lines 244-246
ApiWinner(pred, api) == ApplyValues(pred, api.values, SubSeq(FieldOrder, 1, 3), 1)

\* float(x or 0) of a predicted-goals value, in tenths
GoalsOrZero(g) == IF g.kind = "num" THEN g.v ELSE 0

\* lines 248-264
ApiPredictedGoals(pred, api) ==
    LET pg == api.predictedGoals
    IN  IF ~(pg.present /\ pg.home.kind # "none" /\ pg.away.kind # "none")
        THEN pred
        ELSE LET total_goals == GoalsOrZero(pg.home) + GoalsOrZero(pg.away)
             IN  IF total_goals >= 30 /\ pred["over25Probability"] = 0
                 THEN [pred EXCEPT !["over25Probability"] =
                         Max2(60, Min2(85, PyRound(550 + (total_goals - 25) * 18, 10)))]
                 ELSE IF total_goals <= 20 /\ pred["under25Probability"] = 0
                 THEN [pred EXCEPT !["under25Probability"] =
                         Max2(60, Min2(85, PyRound(580 + (20 - total_goals) * 18, 10)))]
                 ELSE pred

\* lines 266-272
ApiUnderOverHint(pred, api) ==
    LET normalized_hint == _normalize_label(api.underOver)
    IN  IF normalized_hint = "" THEN pred
        ELSE IF _is_over_25_label(normalized_hint) /\ pred["over25Probability"] = 0
        THEN [pred EXCEPT !["over25Probability"] = 62]
        ELSE IF _is_under_25_label(normalized_hint) /\ pred["under25Probability"] = 0
        THEN [pred EXCEPT !["under25Probability"] = 62]
        ELSE pred

_apply_api_prediction(pred, api) ==
    IF ~api.present THEN pred
    ELSE ApiUnderOverHint(ApiPredictedGoals(ApiWinner(pred, api), api), api)

(***************************************************************************)
(* Recommendations, lines 274-303.  A recommendation text is the record of *)
(* its kind, the side it names and the percentage it prints.               *)
(***************************************************************************)
MaxProbability(pred) ==
    Max3(pred["homeWinProbability"], pred["awayWinProbability"],
         pred["drawProbability"])

FavoriteTeam(pred) ==
    IF pred["awayWinProbability"] > pred["homeWinProbability"]
    THEN "away" ELSE "home"

Bet(kind, team, pct) == [kind |-> kind, team |-> team, pct |-> pct]

FavoriteBets(pred) ==
    IF MaxProbability(pred) >= 70
    THEN <<Bet("strong_favorite", FavoriteTeam(pred), MaxProbability(pred))>>
    ELSE IF MaxProbability(pred) >= 55
    THEN <<Bet("favorite", FavoriteTeam(pred), MaxProbability(pred))>>
    ELSE << >>

GoalsBets(pred) ==
    IF pred["over25Probability"] >= 60
    THEN <<Bet("over25", "", pred["over25Probability"])>>
    ELSE IF pred["under25Probability"] >= 60
    THEN <<Bet("under25", "", pred["under25Probability"])>>
    ELSE << >>

BttsBets(pred) ==
    IF pred["bttsYesProbability"] >= 60
    THEN <<Bet("btts_yes", "", pred["bttsYesProbability"])>>
    ELSE IF pred["bttsNoProbability"] >= 60
    THEN <<Bet("btts_no", "", pred["bttsNoProbability"])>>
    ELSE << >>

Recommendations(pred) == FavoriteBets(pred) \o GoalsBets(pred) \o BttsBets(pred)

BetPoints(bet) ==
    CASE bet.kind = "strong_favorite" -> 3
      [] bet.kind = "favorite"        -> 2
      [] bet.kind = "over25"          -> 2
      [] bet.kind = "under25"         -> 2
      [] OTHER                        -> 1

RECURSIVE SumPoints(_, _)
SumPoints(bets, i) ==
    IF i > Len(bets) THEN 0 ELSE BetPoints(bets[i]) + SumPoints(bets, i + 1)

ConfidenceScore(pred) == SumPoints(Recommendations(pred), 1)

(***************************************************************************)
(* Qualitative notes, lines 305-356.  A FormSummary is a record with       *)
(* present = FALSE for None; rates are in percent, goal averages in        *)
(* hundredths.                                                             *)
(***************************************************************************)
HomeStreakNoteLong(form) ==
    IF form.home.present /\ form.home.streakType = "win"
       /\ form.home.streakCount > 3
    THEN <<"home_streak">> ELSE << >>

HomeStreakNote(form) ==
    IF form.home.present /\ form.home.streakType = "win"
       /\ form.home.streakCount >= 3
    THEN <<"home_streak">> ELSE << >>

AwayStreakNote(form) ==
    IF form.away.present /\ form.away.streakType = "loss"
       /\ form.away.streakCount >= 2
    THEN <<"away_streak">> ELSE << >>

\* lines 332-343: statistics.mean(samples) against 1.6 and 1.0
AttackNote(form) ==
    LET n   == (IF form.home.present THEN 1 ELSE 0)
               + (IF form.away.present THEN 1 ELSE 0)
        sum == (IF form.home.present THEN form.home.avgGoalsFor ELSE 0)
               + (IF form.away.present THEN form.away.avgGoalsFor ELSE 0)
    IN  IF n = 0 THEN << >>
        ELSE IF sum >= 160 * n THEN <<"many_goals">>
        ELSE IF sum <= 100 * n THEN <<"few_goals">>
        ELSE << >>

HeadToHeadWinsNote(form) ==
    IF form.headToHead.present /\ form.headToHead.homeWins >= 3
    THEN <<"h2h_home_wins">> ELSE << >>

HeadToHeadGoalsNote(form) ==
    IF form.headToHead.present /\ form.headToHead.avgGoalsTotal >= 300
    THEN <<"h2h_goals">> ELSE << >>

SourceNotes(fb_used, api_used) ==
    (IF fb_used THEN <<"forebet">> ELSE << >>)
    \o (IF api_used THEN <<"api_football">> ELSE << >>)

NotesSourcesFirst(form, fb_used, api_used) ==
    SourceNotes(fb_used, api_used)
    \o HomeStreakNote(form) \o AwayStreakNote(form) \o AttackNote(form)
    \o HeadToHeadWinsNote(form) \o HeadToHeadGoalsNote(form)

Notes(form, fb_used, api_used) ==
    HomeStreakNote(form) \o AwayStreakNote(form) \o AttackNote(form)
    \o HeadToHeadWinsNote(form) \o HeadToHeadGoalsNote(form)
    \o SourceNotes(fb_used, api_used)

QualitativeBoost(form) ==
    Len(HomeStreakNote(form)) + Len(AwayStreakNote(form))
    + Len(HeadToHeadWinsNote(form))

(***************************************************************************)
(* Form-based heuristic, lines 359-497.  A strength is an integer in units *)
(* of 1/Scale; Scale is a multiple of every denominator the formulas       *)
(* produce for sample sizes 1..5, so the divisions below are exact.        *)
(***************************************************************************)
Scale == 3600 * 100

Present(form) == form.present

\* lines 359-392; 0 stands for None (a strength is never below 0.35)
_form_strength(form) ==
    IF ~Present(form) THEN 0
    ELSE LET sample_size == Max2(form.sampleSize, 1)
             streak_bonus ==
                 IF form.streakType = "win"
                 THEN Min2(form.streakCount, 5) * 8 * (Scale \div 100)
                 ELSE IF form.streakType = "loss"
                 THEN -(Min2(form.streakCount, 5) * 8 * (Scale \div 100))
                 ELSE 0
             momentum == Min2((form.formPoints * Scale) \div (sample_size * 3), Scale)
             defence_quality == (300 - Min2(Max2(form.avgGoalsAgainst, 0), 300)) * (Scale \div 300)
             attack_quality == Min2(Max2(form.avgGoalsFor, 0), 400) * (Scale \div 400)
             rating == Scale
                 + form.winRate * 18 * (Scale \div 1000)
                 + (100 - form.lossRate) * 6 * (Scale \div 1000)
                 + form.drawRate * 3 * (Scale \div 1000)
                 + Max2(Min2(form.goalDifferenceAvg, 350), -350) * 12 * (Scale \div 10000)
                 + (momentum * 4) \div 10
                 + attack_quality \div 4
                 + defence_quality \div 5
                 + streak_bonus
         IN  Max2(35 * (Scale \div 100), rating)

\* lines 394-409
DrawBias(form) ==
    IF ~Present(form) THEN 0
    ELSE form.drawRate * 12 * (Scale \div 1000)
         + Max2(0, 220 - form.avgGoalsTotal) * 2 * (Scale \div 1000)

SampleCount(home_data, away_data) ==
    (IF Present(home_data) THEN 1 ELSE 0) + (IF Present(away_data) THEN 1 ELSE 0)

_estimate_draw_component(home_data, away_data) ==
    LET total_samples == SampleCount(home_data, away_data)
        draw_bias == DrawBias(home_data) + DrawBias(away_data)
        base == IF total_samples > 0
                THEN 9 * (Scale \div 10) + draw_bias \div total_samples
                ELSE 9 * (Scale \div 10)
    IN  Max2(5 * (Scale \div 10), Min2(base, 18 * (Scale \div 10)))

Prior(pred) ==
    [pred EXCEPT !["homeWinProbability"] = 38, !["drawProbability"] = 24,
                 !["awayWinProbability"] = 38]

\* lines 416-440, applied when the guard of a variant holds
WinnerSplit(pred, form) ==
    LET hs == _form_strength(form.home)
        as == _form_strength(form.away)
    IN  IF hs = 0 /\ as = 0 THEN Prior(pred)
        ELSE LET home_strength == IF hs = 0 THEN 85 * (Scale \div 100) ELSE hs
                 away_strength == IF as = 0 THEN 85 * (Scale \div 100) ELSE as
                 draw_component == _estimate_draw_component(form.home, form.away)
                 total == home_strength + away_strength + draw_component
             IN  IF total <= 0 THEN Prior(pred)
                 ELSE LET home_pct == PyRound(home_strength * 100, total)
                          draw_pct == PyRound(draw_component * 100, total)
                          away_pct == Max2(0, 100 - home_pct - draw_pct)
                      IN  [pred EXCEPT
                             !["homeWinProbability"] = Max2(0, Min2(100, home_pct)),
                             !["drawProbability"] = Max2(0, Min2(100, draw_pct)),
                             !["awayWinProbability"] = Max2(0, Min2(100, away_pct))]

\* lines 411-415 with a guard that looks at the home field only
HeuristicWinnerHomeOnly(pred, form) ==
    IF pred["homeWinProbability"] = 0 THEN WinnerSplit(pred, form) ELSE pred

HeuristicWinner(pred, form) ==
    IF pred["homeWinProbability"] = 0 /\ pred["awayWinProbability"] = 0
       /\ pred["drawProbability"] = 0
    THEN WinnerSplit(pred, form)
    ELSE pred

\* lines 442-445: the sum of goal_samples, in hundredths, and its length
GoalSum(form) ==
    (IF Present(form.home) THEN form.home.avgGoalsTotal ELSE 0)
    + (IF Present(form.away) THEN form.away.avgGoalsTotal ELSE 0)

GoalCount(form) == SampleCount(form.home, form.away)

\* lines 447-465 with a per-field guard: only the field still at 0 is written
HeuristicGoalsBackfill(pred, form) ==
    LET n   == GoalCount(form)
        sum == GoalSum(form)
        mid == Max2(40, Min2(60, PyRound(5200 * n + (sum - 250 * n) * 18, 100 * n)))
    IN  IF n = 0 THEN pred
        ELSE [pred EXCEPT
                !["over25Probability"] = IF @ = 0 THEN mid ELSE @,
                !["under25Probability"] = IF @ = 0 THEN 100 - mid ELSE @]

\* lines 447-465
HeuristicGoals(pred, form) ==
    LET n   == GoalCount(form)
        sum == GoalSum(form)
    IN  IF ~(pred["over25Probability"] = 0 /\ pred["under25Probability"] = 0 /\ n > 0)
        THEN pred
        ELSE LET hi == Min2(78, PyRound(6200 * n + (sum - 320 * n) * 12, 100 * n))
                 lo == Min2(80, PyRound(6400 * n + (180 * n - sum) * 18, 100 * n))
                 mid == Max2(40, Min2(60, PyRound(5200 * n + (sum - 250 * n) * 18, 100 * n)))
                 over_prob == IF sum >= 320 * n THEN hi
                              ELSE IF sum <= 180 * n THEN Max2(100 - lo, 18)
                              ELSE mid
                 under_prob == IF sum >= 320 * n THEN Max2(100 - hi, 18)
                               ELSE IF sum <= 180 * n THEN lo
                               ELSE Max2(40, Min2(60, 100 - mid))
             IN  [pred EXCEPT !["over25Probability"] = over_prob,
                              !["under25Probability"] = Max2(0, Min2(100, under_prob))]

FormSample(form) == IF Present(form) THEN Max2(form.sampleSize, 1) ELSE 0

\* lines 467-497; the scores are kept as numerators over 4 * n * total_matches
HeuristicBtts(pred, form) ==
    LET n   == GoalCount(form)
        sum == GoalSum(form)
    IN  IF ~(pred["bttsYesProbability"] = 0 /\ pred["bttsNoProbability"] = 0 /\ n > 0)
        THEN pred
        ELSE LET total_matches == FormSample(form.home) + FormSample(form.away)
                 clean_sheets == (IF Present(form.home) THEN form.home.cleanSheets ELSE 0)
                                 + (IF Present(form.away) THEN form.away.cleanSheets ELSE 0)
                 failures == (IF Present(form.home) THEN form.home.failedToScore ELSE 0)
                             + (IF Present(form.away) THEN form.away.failedToScore ELSE 0)
                 den == 4 * n * total_matches
                 yes_score == 4 * n * (50 * (total_matches - clean_sheets)
                                       + 30 * (total_matches - failures))
                              + total_matches * Max2(0, sum - 230 * n)
                 no_score == 4 * n * (50 * clean_sheets + 30 * failures)
                             + total_matches * Max2(0, 230 * n - sum)
             IN  IF yes_score >= no_score
                 THEN LET yes_prob == Max2(35, Min2(80, PyRound(yes_score, den)))
                      IN  [pred EXCEPT !["bttsYesProbability"] = yes_prob,
                                       !["bttsNoProbability"] = Max2(0, Min2(100, 100 - yes_prob))]
                 ELSE LET no_prob == Max2(35, Min2(80, PyRound(no_score, den)))
                      IN  [pred EXCEPT !["bttsNoProbability"] = no_prob,
                                       !["bttsYesProbability"] = Max2(0, Min2(100, 100 - no_prob))]

Heuristic(pred, form) ==
    HeuristicBtts(HeuristicGoals(HeuristicWinner(pred, form), form), form)

(***************************************************************************)
(* Confidence tier, lines 504-507, and ranking, lines 511-524              *)
(***************************************************************************)
ConfidenceTierLax(confidence) ==
    IF confidence >= 4 THEN "high"
    ELSE IF confidence >= 3 THEN "medium"
    ELSE "low"

ConfidenceTier(confidence) ==
    IF confidence >= 5 THEN "high"
    ELSE IF confidence >= 3 THEN "medium"
    ELSE "low"

confidence_rank(confidence) ==
    CASE confidence = "high"   -> 3
      [] confidence = "medium" -> 2
      [] confidence = "low"    -> 1
      [] OTHER                 -> 0

score(item) ==
    confidence_rank(item.confidence) * 1000
    + Len(item.recommendedBets) * 10
    + MaxProbability(item.predictions)

\* sorted(items, key=score, reverse=True): a stable sort, an item goes
\* behind every item whose key is at least its own
RECURSIVE InsertUnstable(_, _)
InsertUnstable(sorted, item) ==
    IF sorted = << >> THEN <<item>>
    ELSE IF score(Head(sorted)) > score(item)
         THEN <<Head(sorted)>> \o InsertUnstable(Tail(sorted), item)
         ELSE <<item>> \o sorted

RECURSIVE Insert(_, _)
Insert(sorted, item) ==
    IF sorted = << >> THEN <<item>>
    ELSE IF score(Head(sorted)) >= score(item)
         THEN <<Head(sorted)>> \o Insert(Tail(sorted), item)
         ELSE <<item>> \o sorted

RECURSIVE SortedFrom(_, _, _)
SortedFrom(items, i, sorted) ==
    IF i > Len(items) THEN sorted
    ELSE SortedFrom(items, i + 1, Insert(sorted, items[i]))

Sorted(items) == SortedFrom(items, 1, << >>)

Count(items, confidence) ==
    Cardinality({i \in 1..Len(items) : items[i].confidence = confidence})

BestLimit == 10

\* match.get("competition", {}).get("region"): a string, or None when the
\* match has no competition or the competition no region
Region(name) == [isStr |-> TRUE, name |-> name]

NoRegion == [isStr |-> FALSE, name |-> ""]

\* the CompetitionIndex of the call: region_order and region_label; the
\* second region has no label of its own
region_order == <<"europe", "americas">>

region_label == [r \in {"europe"} |-> "Europa"]

Label(region) ==
    IF region \in DOMAIN region_label THEN region_label[region] ELSE region

BucketsWithMissing(items) ==
    LET KeyOf(m) == IF m.region.isStr THEN m.region.name ELSE region_order[1]
        keys == {region_order[k] : k \in 1..Len(region_order)}
                \cup {KeyOf(items[i]) : i \in 1..Len(items)}
    IN  [r \in keys |->
            LET InRegion(m) == KeyOf(m) = r
            IN  SelectSeq(items, InRegion)]

\* lines 526-531: a bucket per region of region_order and, by setdefault,
\* per other string region; a region that is not a string is skipped
Buckets(items) ==
    LET keys == {region_order[k] : k \in 1..Len(region_order)}
                \cup {items[i].region.name :
                        i \in {j \in 1..Len(items) : items[j].region.isStr}}
    IN  [r \in keys |->
            LET InRegion(m) == m.region.isStr /\ m.region.name = r
            IN  SelectSeq(items, InRegion)]

\* buckets.get(region, [])
BucketOf(buckets, region) ==
    IF region \in DOMAIN buckets THEN buckets[region] ELSE << >>

BreakdownNonEmpty(buckets) ==
    LET Listed(r) == BucketOf(buckets, r) # << >>
        listed == SelectSeq(region_order, Listed)
    IN  [k \in 1..Len(listed) |->
            [region |-> listed[k], label |-> Label(listed[k]),
             total |-> Len(BucketOf(buckets, listed[k])),
             highConfidence |-> Count(BucketOf(buckets, listed[k]), "high"),
             mediumConfidence |-> Count(BucketOf(buckets, listed[k]), "medium")]]

\* lines 533-544
Breakdown(buckets) ==
    [k \in 1..Len(region_order) |->
        LET region == region_order[k]
            matches_for_region == BucketOf(buckets, region)
        IN  [region |-> region, label |-> Label(region),
             total |-> Len(matches_for_region),
             highConfidence |-> Count(matches_for_region, "high"),
             mediumConfidence |-> Count(matches_for_region, "medium")]]

TopLimit == 5

\* lines 546-557
BestByRegion(buckets) ==
    [k \in 1..Len(region_order) |->
        LET region == region_order[k]
            ordered == Sorted(BucketOf(buckets, region))
        IN  [region |-> region, label |-> Label(region),
             matches |-> ordered,
             topMatches |-> SubSeq(ordered, 1, Min2(TopLimit, Len(ordered)))]]

\* lines 524-567
Analysis(items) ==
    LET sorted_matches == Sorted(items)
        buckets == Buckets(items)
    IN  [totalAnalyzed |-> Len(items),
         bestMatches |-> SubSeq(sorted_matches, 1, Min2(BestLimit, Len(sorted_matches))),
         allMatches |-> sorted_matches,
         highConfidenceCount |-> Count(sorted_matches, "high"),
         mediumConfidenceCount |-> Count(sorted_matches, "medium"),
         breakdownByRegion |-> Breakdown(buckets),
         bestMatchesByRegion |-> BestByRegion(buckets)]

(***************************************************************************)
(* Inputs                                                                  *)
(***************************************************************************)
Num(a) == [kind |-> "num", a |-> a, b |-> 100]

Str(a) == [kind |-> "str", a |-> a, b |-> 100]

Frac(a, b) == [kind |-> "frac", a |-> a, b |-> b]

TextPrice == [kind |-> "text", a |-> 0, b |-> 1]

\* prices in hundredths: below, at and above the rounding ties and 1.00
Hundredths ==
    {-250, -100, 0, 32, 50, 100, 125, 150, 160, 200, 230, 250, 400, 650,
     800, 4000, 19900, 20000, 20100, 25000}

PriceInputs ==
    {NonePrice, TextPrice}
    \cup {Num(a) : a \in Hundredths}
    \cup {Str(a) : a \in Hundredths}
    \cup {Frac(a, b) : a \in -3..4, b \in -1..3}

Outcome(label, price) == [value |-> label, odd |-> price]

Market(name, values) == [name |-> name, values |-> values]

StandardWinner ==
    <<Outcome("Home", Str(150)), Outcome("Draw", Str(400)), Outcome("Away", Str(650))>>

StandardGoals ==
    <<Outcome("Over 2.5", Num(160)), Outcome("Under 2.5", Num(230))>>

StandardBtts == <<Outcome("Yes", Str(155)), Outcome("No", Str(240))>>

\* fetcher.py lines 184-199, _fetch_odds: the bets of the bookmakers in turn;
\* a market name keeps the values of its first bet that has any, at the
\* position where the name was first seen
RECURSIVE SeenMarkets(_, _, _)
SeenMarkets(bets, i, seen) ==
    IF i > Len(bets) THEN seen
    ELSE LET ks == {k \in 1..Len(seen) : seen[k].name = bets[i].name}
         IN  IF ks = {}
             THEN SeenMarkets(bets, i + 1, Append(seen, bets[i]))
             ELSE LET k == CHOOSE k \in ks : TRUE
                  IN  IF seen[k].values = << >>
                      THEN SeenMarkets(bets, i + 1,
                             [seen EXCEPT ![k].values = bets[i].values])
                      ELSE SeenMarkets(bets, i + 1, seen)

_fetch_odds(bets) == SeenMarkets(bets, 1, << >>)

OddsInputs ==
    { << >>,
      _fetch_odds(<<Market("1X2", << >>),
                    Market("Match Winner",
                       <<Outcome("Home", Num(300)), Outcome("Draw", Num(300)),
                         Outcome("Away", Num(300))>>),
                    Market("1X2", <<Outcome("1", Num(180)), Outcome("2", Num(450))>>),
                    Market("Match Winner", StandardWinner)>>),
      <<Market("Match Winner", StandardWinner)>>,
      <<Market("Match Winner", StandardWinner),
        Market("Goals Over/Under", StandardGoals),
        Market("Both Teams Score", StandardBtts)>>,
      <<Market("Match Winner",
          <<Outcome("Home", Num(125)), Outcome("Draw", TextPrice),
            Outcome("Away", Num(25000))>>)>>,
      <<Market("1X2", <<Outcome("Home", Num(50))>>)>>,
      <<Market("Corners", <<Outcome("Over 3.5", Num(120))>>)>>,
      <<Market("1X2", << >>), Market("Match Winner", StandardWinner)>>,
      <<Market("Match Winner", StandardWinner),
        Market("1X2", <<Outcome("Home", Num(200)), Outcome("Away", Num(200))>>)>>,
      <<Market("Match Winner",
          <<Outcome("Home", Num(150)), Outcome("Home", Num(25000))>>)>>,
      <<Market("Total Goals", <<Outcome("Over 2.5", Num(150))>>)>>,
      <<Market("BTTS", <<Outcome("Sim", Frac(1, 2)), Outcome("Não", NonePrice)>>)>>,
      <<Market("Total Goals",
          <<Outcome("Mais de 2,5", Str(-250)), Outcome("Menos de 2,5", Frac(3, 2))>>)>>,
      <<Market("1X2",
          <<Outcome(" 1 ", Num(400)), Outcome("X", Num(160)), Outcome("2", Num(800)),
            Outcome("Foo", Num(150))>>),
        Market("Goals Over/Under", <<Outcome("Over 3.5", Num(120))>>)>> }

Pct(v) == [kind |-> "num", v |-> v]

NonePct == [kind |-> "none", v |-> 0]

TextPct == [kind |-> "text", v |-> 0]

NoForebet == [present |-> FALSE, values |-> [f \in Fields |-> NonePct]]

ForebetInputs ==
    { NoForebet,
      [present |-> TRUE,
       values |-> [f \in Fields |->
          CASE f = "homeWinProbability" -> Pct(550)
            [] f = "drawProbability"    -> Pct(250)
            [] f = "awayWinProbability" -> Pct(200)
            [] f = "over25Probability"  -> Pct(620)
            [] f = "under25Probability" -> Pct(380)
            [] f = "bttsYesProbability" -> Pct(680)
            [] OTHER                    -> Pct(320)]],
      [present |-> TRUE,
       values |-> [f \in Fields |->
          CASE f = "homeWinProbability" -> NonePct
            [] f = "drawProbability"    -> Pct(305)
            [] f = "awayWinProbability" -> TextPct
            [] f = "over25Probability"  -> Pct(0)
            [] f = "under25Probability" -> Pct(1200)
            [] f = "bttsYesProbability" -> Pct(-50)
            [] OTHER                    -> Pct(4)]] }

NoGoals == [present |-> FALSE, home |-> NonePct, away |-> NonePct]

NoApi ==
    [present |-> FALSE, values |-> [f \in Fields |-> NonePct],
     predictedGoals |-> NoGoals, underOver |-> ""]

ApiInputs ==
    { NoApi,
      [present |-> TRUE,
       values |-> [f \in Fields |->
          CASE f = "homeWinProbability" -> Pct(650)
            [] f = "drawProbability"    -> Pct(200)
            [] f = "awayWinProbability" -> Pct(150)
            [] OTHER                    -> NonePct],
       predictedGoals |-> [present |-> TRUE, home |-> Pct(21), away |-> Pct(9)],
       underOver |-> "Over 2.5"],
      [present |-> TRUE,
       values |-> [f \in Fields |->
          CASE f = "awayWinProbability" -> Pct(1250)
            [] OTHER                    -> NonePct],
       predictedGoals |-> [present |-> TRUE, home |-> Pct(10), away |-> Pct(5)],
       underOver |-> ""],
      [present |-> TRUE,
       values |-> [f \in Fields |-> NonePct],
       predictedGoals |-> [present |-> TRUE, home |-> Pct(25), away |-> NonePct],
       underOver |-> "Under 2.5"] }

NoForm ==
    [present |-> FALSE, winRate |-> 0, drawRate |-> 0, lossRate |-> 0,
     goalDifferenceAvg |-> 0, avgGoalsFor |-> 0, avgGoalsAgainst |-> 0,
     avgGoalsTotal |-> 0, formPoints |-> 0, sampleSize |-> 0,
     streakType |-> "", streakCount |-> 0, cleanSheets |-> 0,
     failedToScore |-> 0]

\* five wins out of five, high scoring
StrongForm ==
    [present |-> TRUE, winRate |-> 100, drawRate |-> 0, lossRate |-> 0,
     goalDifferenceAvg |-> 300, avgGoalsFor |-> 340, avgGoalsAgainst |-> 40,
     avgGoalsTotal |-> 380, formPoints |-> 15, sampleSize |-> 5,
     streakType |-> "win", streakCount |-> 5, cleanSheets |-> 3,
     failedToScore |-> 0]

\* four losses and a draw out of five, low scoring
WeakForm ==
    [present |-> TRUE, winRate |-> 0, drawRate |-> 20, lossRate |-> 80,
     goalDifferenceAvg |-> -120, avgGoalsFor |-> 20, avgGoalsAgainst |-> 140,
     avgGoalsTotal |-> 160, formPoints |-> 1, sampleSize |-> 5,
     streakType |-> "loss", streakCount |-> 3, cleanSheets |-> 0,
     failedToScore |-> 4]

\* two wins, a draw and a loss out of four
EvenForm ==
    [present |-> TRUE, winRate |-> 50, drawRate |-> 25, lossRate |-> 25,
     goalDifferenceAvg |-> 25, avgGoalsFor |-> 150, avgGoalsAgainst |-> 125,
     avgGoalsTotal |-> 275, formPoints |-> 7, sampleSize |-> 4,
     streakType |-> "draw", streakCount |-> 1, cleanSheets |-> 1,
     failedToScore |-> 1]

\* three wins after two losses out of five
RisingForm ==
    [present |-> TRUE, winRate |-> 60, drawRate |-> 0, lossRate |-> 40,
     goalDifferenceAvg |-> 60, avgGoalsFor |-> 140, avgGoalsAgainst |-> 80,
     avgGoalsTotal |-> 220, formPoints |-> 9, sampleSize |-> 5,
     streakType |-> "win", streakCount |-> 3, cleanSheets |-> 2,
     failedToScore |-> 1]

NoHeadToHead == [present |-> FALSE, homeWins |-> 0, avgGoalsTotal |-> 0]

FormInputs ==
    [home : {NoForm, StrongForm, WeakForm, EvenForm, RisingForm},
     away : {NoForm, WeakForm, EvenForm},
     headToHead : {NoHeadToHead,
                   [present |-> TRUE, homeWins |-> 3, avgGoalsTotal |-> 325]}]

MatchInputs ==
    [odds : OddsInputs, forebet : ForebetInputs,
     apiFootballPrediction : ApiInputs, form : FormInputs,
     region : {Region("europe")}]

Plain(odds, form) ==
    [odds |-> odds, forebet |-> NoForebet, apiFootballPrediction |-> NoApi,
     form |-> form, region |-> Region("europe")]

\* the match m of another competition
In(region, m) == [m EXCEPT !.region = region]

Unknown == [home |-> NoForm, away |-> NoForm, headToHead |-> NoHeadToHead]

\* matches of the ranked lists: no odds; a favorite only; three
\* recommendations; a favorite with two qualitative points; and matches of
\* the second region, of a region the index does not list (manual_fetcher
\* line 257) and of no region
RankInputs ==
    { Plain(<< >>, Unknown),
      Plain(<<Market("Match Winner", StandardWinner)>>, Unknown),
      Plain(<<Market("Match Winner", StandardWinner),
              Market("Goals Over/Under", StandardGoals),
              Market("Both Teams Score", StandardBtts)>>, Unknown),
      Plain(<<Market("Match Winner", StandardWinner)>>,
            [home |-> StrongForm, away |-> WeakForm, headToHead |-> NoHeadToHead]),
      In(Region("americas"),
         Plain(<<Market("Match Winner", StandardWinner),
                 Market("Goals Over/Under", StandardGoals),
                 Market("Both Teams Score", StandardBtts)>>, Unknown)),
      In(Region("Outros"), Plain(<<Market("Match Winner", StandardWinner)>>, Unknown)),
      In(NoRegion, Plain(<< >>, Unknown)) }

LongInputs ==
    { Plain(<< >>, Unknown),
      Plain(<<Market("Match Winner", StandardWinner)>>, Unknown) }

MaxShort == 3

MaxLong == 11

RECURSIVE ListsOf(_, _)
ListsOf(S, n) ==
    IF n = 0 THEN { << >> }
    ELSE {Append(l, m) : l \in ListsOf(S, n - 1), m \in S}

\* the start of every list longer than BestLimit: the two matches in turn
LongPrefix ==
    [i \in 1..(BestLimit - 2) |->
        IF i % 2 = 1 THEN Plain(<< >>, Unknown)
        ELSE Plain(<<Market("Match Winner", StandardWinner)>>, Unknown)]

LongLists ==
    {LongPrefix \o tail :
        tail \in UNION {ListsOf(LongInputs, n) : n \in 3..(MaxLong - Len(LongPrefix))}}

MatchLists ==
    {<<m>> : m \in MatchInputs}
    \cup UNION {ListsOf(RankInputs, n) : n \in 0..MaxShort}
    \cup LongLists

(***************************************************************************)
(* main.py: the cached-fixture fallback of _load_match_data.  Time is in   *)
(* whole hours.  A match_data dictionary is reduced to its list of matches *)
(* (fixture ids) and the two metadata counters _should_use_cache reads;    *)
(* fetch_matches returns a dictionary with both counters (fetcher.py       *)
(* 625-644) or raises FetchError.                                          *)
(***************************************************************************)
_CACHE_MAX_AGE == 12

MatchData(ms, processed, supported) ==
    [isDict |-> TRUE, matches |-> ms,
     processedFixtures |-> processed, supportedFixtures |-> supported]

\* a JSON value that is not an object
NotADict ==
    [isDict |-> FALSE, matches |-> << >>,
     processedFixtures |-> 0, supportedFixtures |-> 0]

\* payload["cachedAt"]: an ISO time, or absent, not a string or unparseable
At(t) == [ok |-> TRUE, t |-> t]

NoTime == [ok |-> FALSE, t |-> 0]

\* a cache file: "missing" (FileNotFoundError), "unreadable" (OSError),
\* "undecodable" (bytes that are not UTF-8), "corrupted" (not JSON),
\* "notdict" (JSON that is not an object) or a "payload" object
NoPayload(kind) == [kind |-> kind, cachedAt |-> NoTime, matchData |-> NotADict]

Payload(cachedAt, matchData) ==
    [kind |-> "payload", cachedAt |-> cachedAt, matchData |-> matchData]

NoEntry == [found |-> FALSE, cached_at |-> 0, match_data |-> NotADict]

Entry(t, data) == [found |-> TRUE, cached_at |-> t, match_data |-> data]

LoadCachedPayloadAnyAge(file, clock) ==
    IF file.kind # "payload" \/ ~ file.matchData.isDict THEN NoEntry
    ELSE Entry(IF file.cachedAt.ok THEN file.cachedAt.t ELSE clock, file.matchData)

\* lines 48-94, for a file read_text can decode: None, or (cached_at,
\* match_data); a payload without a usable cachedAt counts as written now
_load_cached_payload(file, clock) ==
    IF file.kind # "payload" THEN NoEntry
    ELSE IF ~ file.matchData.isDict THEN NoEntry
    ELSE LET cached_at == IF file.cachedAt.ok THEN file.cachedAt.t ELSE clock
         IN  IF clock - cached_at > _CACHE_MAX_AGE THEN NoEntry
             ELSE Entry(cached_at, file.matchData)

ShouldUseCacheEitherZero(fetched_data, cached) ==
    IF ~ cached.found THEN FALSE
    ELSE IF cached.match_data.matches = << >> THEN FALSE
    ELSE IF fetched_data.matches # << >> THEN FALSE
    ELSE IF fetched_data.processedFixtures = 0 \/ fetched_data.supportedFixtures = 0
         THEN FALSE
    ELSE TRUE

\* lines 111-135, for the dictionary fetch_matches returned
_should_use_cache(fetched_data, cached) ==
    IF ~ cached.found THEN FALSE
    ELSE IF cached.match_data.matches = << >> THEN FALSE
    ELSE IF fetched_data.matches # << >> THEN FALSE
    ELSE IF fetched_data.processedFixtures = 0 /\ fetched_data.supportedFixtures = 0
         THEN FALSE
    ELSE TRUE

NoReturn == [kind |-> "none", data |-> NotADict, used_cache |-> FALSE, error |-> ""]

Return(data, used_cache) ==
    [kind |-> "return", data |-> data, used_cache |-> used_cache, error |-> ""]

Raise(error) ==
    [kind |-> "raise", data |-> NotADict, used_cache |-> FALSE, error |-> error]

NotCalled == [kind |-> "not_called", data |-> NotADict]

Failed == [kind |-> "error", data |-> NotADict]

Fetched(data) == [kind |-> "data", data |-> data]

NothingStored == [has |-> FALSE, data |-> NotADict, at |-> 0]

Dates == {"2025-10-15", "2025-10-16"}

\* what fetch_matches does: FetchError, or a dictionary with matches, with
\* none although fixtures were processed, with none on a day without
\* fixtures, with none because no supported fixture was processed
FetchInputs ==
    { Failed,
      Fetched(MatchData(<<1>>, 2, 2)),
      Fetched(MatchData(<<9, 4>>, 2, 3)),
      Fetched(MatchData(<< >>, 2, 2)),
      Fetched(MatchData(<< >>, 0, 0)),
      Fetched(MatchData(<< >>, 0, 3)) }

\* what _store_cached_payload meets: the file is written, write_text raises
\* OSError before anything is written, or mkdir raises OSError
StoreInputs == {"written", "write_error", "mkdir_error"}

\* the file of the first date when the program starts
FileInputs ==
    { NoPayload("missing"), NoPayload("unreadable"), NoPayload("undecodable"),
      NoPayload("corrupted"), NoPayload("notdict"),
      Payload(At(-6), NotADict),
      Payload(At(-12), MatchData(<<7>>, 1, 1)),
      Payload(At(-13), MatchData(<<7>>, 1, 1)),
      Payload(NoTime, MatchData(<<7>>, 1, 1)),
      Payload(At(-6), MatchData(<< >>, 0, 0)) }

TickHours == {6, 7}

MaxCalls == 3

MaxClock == 13

(***************************************************************************)
(* live_monitor.py: LiveMonitor.  A live match is an entry of allMatches    *)
(* reduced to fixtureId, confidence, recommendedBets, score and            *)
(* status.short; a score is absent when home or away is None.              *)
(***************************************************************************)
ConfidenceRankFlat(confidence) == 2

\* CONFIDENCE_RANK.get(confidence, 0)
CONFIDENCE_RANK(confidence) ==
    CASE confidence = "low"    -> 0
      [] confidence = "medium" -> 1
      [] confidence = "high"   -> 2
      [] OTHER                 -> 0

MAX_ALERTS_PER_MATCH == 2

finished_status == {"FT", "AET", "PEN", "CANC", "ABD", "PST"}

Score(home, away) == [present |-> TRUE, home |-> home, away |-> away]

NoScore == [present |-> FALSE, home |-> 0, away |-> 0]

LiveMatch(id, confidence, bets, sc, status) ==
    [fixtureId |-> id, confidence |-> confidence, recommendedBets |-> bets,
     score |-> sc, status |-> status]

\* dict.get(key, default), dict.pop(key, None) and dict[key] = value
Get(map, key, default) == IF key \in DOMAIN map THEN map[key] ELSE default

Pop(map, keys) == [k \in DOMAIN map \ keys |-> map[k]]

Put(map, key, value) ==
    [k \in DOMAIN map \cup {key} |-> IF k = key THEN value ELSE map[k]]

NoEvent == [type |-> "", level |-> "", home |-> 0, away |-> 0, scorer |-> ""]

\* line 175
GoalFlag(home, away) == "goal:" \o ToString(home) \o "-" \o ToString(away)

DetectGoalOnFirst(cache, fixture_key, m, sent_flags) ==
    IF ~ m.score.present
    THEN [cache |-> Pop(cache, {fixture_key}), flags |-> {}, events |-> << >>]
    ELSE [cache |-> Put(cache, fixture_key, <<m.score.home, m.score.away>>),
          flags |-> IF Get(cache, fixture_key, << >>) = <<m.score.home, m.score.away>>
                    THEN {} ELSE {GoalFlag(m.score.home, m.score.away)},
          events |-> IF Get(cache, fixture_key, << >>) = <<m.score.home, m.score.away>>
                     THEN << >>
                     ELSE <<[NoEvent EXCEPT !.type = "goal", !.home = m.score.home,
                                            !.away = m.score.away]>>]

\* lines 155-196: the new score cache, the goal flag and the goal event
_detect_goal(cache, fixture_key, m, sent_flags) ==
    IF ~ m.score.present
    THEN [cache |-> Pop(cache, {fixture_key}), flags |-> {}, events |-> << >>]
    ELSE LET home     == m.score.home
             away     == m.score.away
             updated  == Put(cache, fixture_key, <<home, away>>)
             nothing  == [cache |-> updated, flags |-> {}, events |-> << >>]
         IN  IF fixture_key \notin DOMAIN cache THEN nothing
             ELSE IF cache[fixture_key] = <<home, away>> THEN nothing
             ELSE IF GoalFlag(home, away) \in sent_flags THEN nothing
             ELSE LET diff_home == home - cache[fixture_key][1]
                      diff_away == away - cache[fixture_key][2]
                      scorer == IF diff_home > diff_away /\ diff_home > 0 THEN "home"
                                ELSE IF diff_away > diff_home /\ diff_away > 0 THEN "away"
                                ELSE ""
                  IN  [cache |-> updated,
                       flags |-> {GoalFlag(home, away)},
                       events |-> <<[NoEvent EXCEPT !.type = "goal", !.home = home,
                                                   !.away = away, !.scorer = scorer]>>]

NewFlagsUnfiltered(m, sent_flags, rank_min) ==
    LET rank == CONFIDENCE_RANK(m.confidence)
        recommended == {m.recommendedBets[i] : i \in 1..Len(m.recommendedBets)}
    IN  IF rank >= rank_min /\ recommended # {}
        THEN [flags |-> recommended, events |-> << >>]
        ELSE [flags |-> {}, events |-> << >>]

\* lines 202-227: the recommendation flags, or the flag of a high confidence
NewFlags(m, sent_flags, rank_min) ==
    LET rank == CONFIDENCE_RANK(m.confidence)
        new_recommendations ==
            {m.recommendedBets[i] : i \in {j \in 1..Len(m.recommendedBets) :
                                             m.recommendedBets[j] \notin sent_flags}}
    IN  IF rank < rank_min THEN [flags |-> {}, events |-> << >>]
        ELSE IF new_recommendations # {}
        THEN [flags |-> new_recommendations, events |-> << >>]
        ELSE IF rank >= CONFIDENCE_RANK("high") /\ "__high__" \notin sent_flags
        THEN [flags |-> {"__high__"},
              events |-> <<[NoEvent EXCEPT !.type = "confidence",
                                           !.level = m.confidence]>>]
        ELSE [flags |-> {}, events |-> << >>]

NoAlert == [kind |-> "none", fixture_key |-> 0, recommendations |-> << >>,
            new_flags |-> {}, events |-> << >>]

Alert(fixture_key, bets, new_flags, events) ==
    [kind |-> "alert", fixture_key |-> fixture_key, recommendations |-> bets,
     new_flags |-> new_flags, events |-> events]

CleanedFinishedOnly(feed, sent) ==
    {feed[i].fixtureId : i \in {j \in 1..Len(feed) : feed[j].status \in finished_status}}
    \cap DOMAIN sent

\* lines 115-144: the fixtures whose entries _cleanup_finished removes
Cleaned(feed, sent) ==
    LET active_ids == {feed[i].fixtureId : i \in 1..Len(feed)}
        finished == {feed[i].fixtureId :
                        i \in {j \in 1..Len(feed) : feed[j].status \in finished_status}}
    IN  (finished \cap DOMAIN sent) \cup (DOMAIN sent \ active_ids)

\* the first fixture in play, at each confidence the analyzer gives to these
\* recommendations, without score, at 0-0 and at 1-0; or finished
FirstFixture ==
    { LiveMatch(101, c[1], c[2], sc, "1H") :
        c \in { <<"low", << >> >>, <<"low", <<"Over 2.5">> >>,
                <<"medium", <<"Over 2.5">> >>,
                <<"high", <<"Over 2.5">> >>, <<"medium", <<"Over 2.5", "BTTS">> >>,
                <<"high", <<"Over 2.5", "BTTS">> >> },
        sc \in {NoScore, Score(0, 0), Score(1, 0)} }
    \cup { LiveMatch(101, "medium", <<"Over 2.5">>, Score(1, 0), "FT") }

SecondFixture == LiveMatch(202, "medium", <<"BTTS">>, Score(0, 0), "2H")

\* allMatches of an iteration
FeedInputs ==
    { << >>, <<SecondFixture>> }
    \cup { <<m>> : m \in FirstFixture }
    \cup { <<m, SecondFixture>> :
               m \in {f \in FirstFixture : f.confidence = "medium"
                                            /\ Len(f.recommendedBets) = 1} }

\* what _send meets: the message is sent, it is not sent (_send returns
\* False), or sending raises
SendInputs == {"sent", "not_sent", "error"}

MaxScans == 4

(***************************************************************************)
(* State machine                                                           *)
(***************************************************************************)
Locals ==
    /\ predictions = ZeroPredictions
    /\ source = NoSource
    /\ forebet_used = FALSE
    /\ api_prediction_used = FALSE
    /\ recommendations = << >>
    /\ confidence_score = 0
    /\ notes = << >>
    /\ qualitative_boost = 0
    /\ analyzed = << >>
    /\ result = [totalAnalyzed |-> -1]
    /\ call = 1
    /\ first = [totalAnalyzed |-> -1]

\* _load_match_data is not in use
NoCache ==
    /\ now = 0
    /\ cache_dir = FALSE
    /\ cache_files = [d \in Dates |-> NoPayload("missing")]
    /\ calls = 0
    /\ date = ""
    /\ fetched = NotCalled
    /\ ret = NoReturn
    /\ last_stored = [d \in Dates |-> NothingStored]

\* no LiveMonitor is running
NoMonitor ==
    /\ min_rank = 1
    /\ _sent_flags = << >>
    /\ _score_cache = << >>
    /\ _analysis_counts = << >>
    /\ scans = 0
    /\ live = << >>
    /\ pos = 1
    /\ mpc = "idle"
    /\ alert = NoAlert
    /\ observed = << >>
    /\ delivered = << >>
    /\ removed = {}

NoResponse == [kind |-> "none", status |-> 0]

\* no request is being made
NoRetry ==
    /\ max_retries = 2
    /\ attempt = 0
    /\ wait_seconds = 30
    /\ rpc = "idle"
    /\ replies = << >>
    /\ slept = << >>
    /\ caller_gets = NoResponse

Nothing == [lookups |-> 0, analyses |-> 0, llm_calls |-> 0, sent |-> << >>]

\* no listener is running
NoOwner ==
    /\ telegram_owner_id = ""
    /\ telegram_admin_ids = {}
    /\ telegram_channel_id = FALSE
    /\ allowed_ids = {}
    /\ offset = -1
    /\ inbox = << >>
    /\ upos = 1
    /\ opc = "idle"
    /\ polls = 0
    /\ did = Nothing

\* a call of analyze_matches(matches, index)
Init ==
    /\ matches \in MatchLists
    /\ idx = 1
    /\ pc = "loop"
    /\ odd = NonePrice
    /\ probability = -1
    /\ Locals
    /\ NoCache
    /\ NoMonitor
    /\ NoRetry
    /\ NoOwner

\* a call of _calculate_probability(odd)
InitProbability ==
    /\ odd \in PriceInputs
    /\ probability = -1
    /\ pc = "call"
    /\ matches = << >>
    /\ idx = 1
    /\ Locals
    /\ NoCache
    /\ NoMonitor
    /\ NoRetry
    /\ NoOwner

CalculateProbability ==
    /\ pc = "call"
    /\ probability' = _calculate_probability(odd)
    /\ pc' = "return"
    /\ UNCHANGED <<odd, matches, idx, predictions, source, forebet_used,
                   api_prediction_used, recommendations, confidence_score,
                   notes, qualitative_boost, analyzed, result>>
    /\ UNCHANGED <<call, first, elsewhere>>

match == matches[idx]

\* lines 137-157, a match without odds: the entry is appended as created
SkipMatch ==
    /\ pc = "loop"
    /\ idx <= Len(matches)
    /\ match.odds = << >>
    /\ analyzed' = Append(analyzed, NewEntry(idx))
    /\ idx' = idx + 1
    /\ UNCHANGED <<odd, probability, matches, pc, predictions, source,
                   forebet_used, api_prediction_used, recommendations,
                   confidence_score, notes, qualitative_boost, result>>
    /\ UNCHANGED <<call, first, elsewhere>>

\* lines 137-180, a match with odds
BeginMatch ==
    /\ pc = "loop"
    /\ idx <= Len(matches)
    /\ match.odds # << >>
    /\ predictions' = ZeroPredictions
    /\ source' = NoSource
    /\ forebet_used' = FALSE
    /\ api_prediction_used' = FALSE
    /\ pc' = "market"
    /\ UNCHANGED <<odd, probability, matches, idx, recommendations,
                   confidence_score, notes, qualitative_boost, analyzed, result>>
    /\ UNCHANGED <<call, first, elsewhere>>

\* lines 159-206
MarketOdds ==
    /\ pc = "market"
    /\ predictions' = ApplyMarkets(match.odds, predictions)
    /\ source' = Stamp(predictions, predictions', source, "market")
    /\ pc' = "forebet"
    /\ UNCHANGED <<odd, probability, matches, idx, forebet_used,
                   api_prediction_used, recommendations, confidence_score,
                   notes, qualitative_boost, analyzed, result>>
    /\ UNCHANGED <<call, first, elsewhere>>

\* lines 208-228
ApplyForebet ==
    /\ pc = "forebet"
    /\ predictions' = _apply_forebet(predictions, match.forebet)
    /\ forebet_used' = (predictions' # predictions)
    /\ source' = Stamp(predictions, predictions', source, "forebet")
    /\ pc' = "vendor"
    /\ UNCHANGED <<odd, probability, matches, idx, api_prediction_used,
                   recommendations, confidence_score, notes,
                   qualitative_boost, analyzed, result>>
    /\ UNCHANGED <<call, first, elsewhere>>

\* lines 230-272
ApplyApiPrediction ==
    /\ pc = "vendor"
    /\ predictions' = _apply_api_prediction(predictions, match.apiFootballPrediction)
    /\ api_prediction_used' =
          (match.apiFootballPrediction.present
           /\ ApiWinner(predictions, match.apiFootballPrediction) # predictions)
    /\ source' = Stamp(predictions, predictions', source, "vendor")
    /\ pc' = "recommend"
    /\ UNCHANGED <<odd, probability, matches, idx, forebet_used,
                   recommendations, confidence_score, notes,
                   qualitative_boost, analyzed, result>>
    /\ UNCHANGED <<call, first, elsewhere>>

\* lines 274-303
Recommend ==
    /\ pc = "recommend"
    /\ recommendations' = Recommendations(predictions)
    /\ confidence_score' = ConfidenceScore(predictions)
    /\ pc' = "notes"
    /\ UNCHANGED <<odd, probability, matches, idx, predictions, source,
                   forebet_used, api_prediction_used, notes,
                   qualitative_boost, analyzed, result>>
    /\ UNCHANGED <<call, first, elsewhere>>

\* lines 305-356
QualitativeNotes ==
    /\ pc = "notes"
    /\ notes' = Notes(match.form, forebet_used, api_prediction_used)
    /\ qualitative_boost' = QualitativeBoost(match.form)
    /\ pc' = "heuristic"
    /\ UNCHANGED <<odd, probability, matches, idx, predictions, source,
                   forebet_used, api_prediction_used, recommendations,
                   confidence_score, analyzed, result>>
    /\ UNCHANGED <<call, first, elsewhere>>

\* lines 411-497
FormHeuristic ==
    /\ pc = "heuristic"
    /\ predictions' = Heuristic(predictions, match.form)
    /\ source' = Stamp(predictions, predictions', source, "heuristic")
    /\ pc' = "finish"
    /\ UNCHANGED <<odd, probability, matches, idx, forebet_used,
                   api_prediction_used, recommendations, confidence_score,
                   notes, qualitative_boost, analyzed, result>>
    /\ UNCHANGED <<call, first, elsewhere>>

\* lines 499-509
FinishMatch ==
    /\ pc = "finish"
    /\ confidence_score' = confidence_score + qualitative_boost
    /\ analyzed' = Append(analyzed,
          [id |-> idx, region |-> match.region, predictions |-> predictions,
           recommendedBets |-> recommendations,
           confidence |-> ConfidenceTier(confidence_score'),
           analysisNotes |-> SubSeq(notes, 1, Min2(3, Len(notes)))])
    /\ idx' = idx + 1
    /\ pc' = "loop"
    /\ UNCHANGED <<odd, probability, matches, predictions, source,
                   forebet_used, api_prediction_used, recommendations, notes,
                   qualitative_boost, result>>
    /\ UNCHANGED <<call, first, elsewhere>>

\* lines 511-567, after the loop
Rank ==
    /\ pc = "loop"
    /\ idx > Len(matches)
    /\ result' = Analysis(analyzed)
    /\ pc' = "done"
    /\ UNCHANGED <<odd, probability, matches, idx, predictions, source,
                   forebet_used, api_prediction_used, recommendations,
                   confidence_score, notes, qualitative_boost, analyzed>>
    /\ UNCHANGED <<call, first, elsewhere>>

AnalyzeAgainKeeping ==
    /\ pc = "done"
    /\ call = 1
    /\ first' = result
    /\ call' = 2
    /\ idx' = 1
    /\ pc' = "loop"
    /\ result' = [totalAnalyzed |-> -1]
    /\ UNCHANGED <<odd, probability, matches, predictions, source,
                   forebet_used, api_prediction_used, recommendations,
                   confidence_score, notes, qualitative_boost, analyzed,
                   elsewhere>>

\* lines 131-135: analyze_matches is called again with the same list and the
\* same index; the call has a frame of its own and a new list `analyzed`
AnalyzeAgain ==
    /\ pc = "done"
    /\ call = 1
    /\ first' = result
    /\ call' = 2
    /\ idx' = 1
    /\ pc' = "loop"
    /\ predictions' = ZeroPredictions
    /\ source' = NoSource
    /\ forebet_used' = FALSE
    /\ api_prediction_used' = FALSE
    /\ recommendations' = << >>
    /\ confidence_score' = 0
    /\ notes' = << >>
    /\ qualitative_boost' = 0
    /\ analyzed' = << >>
    /\ result' = [totalAnalyzed |-> -1]
    /\ UNCHANGED <<odd, probability, matches, elsewhere>>

Next ==
    \/ SkipMatch
    \/ BeginMatch
    \/ MarketOdds
    \/ ApplyForebet
    \/ ApplyApiPrediction
    \/ Recommend
    \/ QualitativeNotes
    \/ FormHeuristic
    \/ FinishMatch
    \/ Rank
    \/ AnalyzeAgain

Spec == Init /\ [][Next]_vars

NextProbability == CalculateProbability

SpecProbability == InitProbability /\ [][NextProbability]_vars

(***************************************************************************)
(* State machine of the cached-fixture fallback: calls of _load_match_data *)
(* for one of two dates, with the clock advancing between them.            *)
(***************************************************************************)
\* analyze_matches is not in use
NoAnalysis ==
    /\ odd = NonePrice
    /\ probability = -1
    /\ matches = << >>
    /\ idx = 1
    /\ pc = "idle"
    /\ Locals

InitCache ==
    /\ now = 0
    /\ cache_dir \in BOOLEAN
    /\ \E file \in FileInputs :
          cache_files = [d \in Dates |->
                           IF d = "2025-10-15" THEN file ELSE NoPayload("missing")]
    /\ calls = 0
    /\ date = ""
    /\ fetched = NotCalled
    /\ ret = NoReturn
    /\ last_stored = [d \in Dates |-> NothingStored]
    /\ NoAnalysis
    /\ NoMonitor
    /\ NoRetry
    /\ NoOwner

\* lines 138-174: _load_match_data(d, ..., cache_dir, fetch_matches), with
\* what fetch_matches does and what _store_cached_payload (lines 97-108)
\* meets.  read_text on bytes that are not UTF-8 raises UnicodeDecodeError,
\* which _load_cached_payload does not catch: the call ends before the fetch.
LoadMatchData(d, outcome, store) ==
    /\ calls < MaxCalls
    /\ calls' = calls + 1
    /\ date' = d
    /\ LET cache_entry == IF cache_dir THEN _load_cached_payload(cache_files[d], now)
                          ELSE NoEntry
       IN  IF cache_dir /\ cache_files[d].kind = "undecodable"
           THEN /\ outcome = Failed /\ store = "written"
                /\ fetched' = NotCalled
                /\ ret' = Raise("UnicodeDecodeError")
                /\ UNCHANGED <<cache_files, last_stored>>
           ELSE /\ fetched' = outcome
                /\ IF outcome.kind = "error"
                   THEN /\ store = "written"
                        /\ ret' = IF cache_entry.found
                                  THEN Return(cache_entry.match_data, TRUE)
                                  ELSE Raise("FetchError")
                        /\ UNCHANGED <<cache_files, last_stored>>
                   ELSE IF _should_use_cache(outcome.data, cache_entry)
                   THEN /\ store = "written"
                        /\ ret' = Return(cache_entry.match_data, TRUE)
                        /\ UNCHANGED <<cache_files, last_stored>>
                   ELSE IF cache_dir /\ outcome.data.matches # << >>
                   THEN CASE store = "written" ->
                               /\ cache_files' =
                                     [cache_files EXCEPT ![d] = Payload(At(now), outcome.data)]
                               /\ last_stored' =
                                     [last_stored EXCEPT
                                        ![d] = [has |-> TRUE, data |-> outcome.data, at |-> now]]
                               /\ ret' = Return(outcome.data, FALSE)
                          [] store = "write_error" ->
                               /\ ret' = Return(outcome.data, FALSE)
                               /\ UNCHANGED <<cache_files, last_stored>>
                          [] OTHER ->
                               /\ ret' = Raise("OSError")
                               /\ UNCHANGED <<cache_files, last_stored>>
                   ELSE /\ store = "written"
                        /\ ret' = Return(outcome.data, FALSE)
                        /\ UNCHANGED <<cache_files, last_stored>>
    /\ UNCHANGED <<now, cache_dir, analyzerVars, monitorVars, retryVars, ownerVars>>

\* time passes between two calls
Tick(hours) ==
    /\ now + hours <= MaxClock
    /\ now' = now + hours
    /\ UNCHANGED <<cache_dir, cache_files, calls, date, fetched, ret, last_stored,
                   analyzerVars, monitorVars, retryVars, ownerVars>>

NextCache ==
    \/ \E d \in Dates, outcome \in FetchInputs, store \in StoreInputs :
          LoadMatchData(d, outcome, store)
    \/ \E hours \in TickHours : Tick(hours)

SpecCache == InitCache /\ [][NextCache]_vars

(***************************************************************************)
(* State machine of LiveMonitor.run: iterations of the while-loop (lines   *)
(* 351-404), the for-loop over the analyzed matches one call of            *)
(* _should_alert and one _send at a time.                                  *)
(***************************************************************************)
\* lines 77-104: LiveMonitor(..., min_confidence, ...)
InitMonitor ==
    /\ min_rank \in {CONFIDENCE_RANK(c) : c \in {"low", "medium", "high"}}
    /\ _sent_flags = << >>
    /\ _score_cache = << >>
    /\ _analysis_counts = << >>
    /\ scans = 0
    /\ live = << >>
    /\ pos = 1
    /\ mpc = "wait"
    /\ alert = NoAlert
    /\ observed = << >>
    /\ delivered = << >>
    /\ removed = {}
    /\ NoAnalysis
    /\ NoCache
    /\ NoRetry
    /\ NoOwner

\* lines 352-364: fetch_matches raises FetchError
ScanFail ==
    /\ mpc = "wait"
    /\ scans < MaxScans
    /\ scans' = scans + 1
    /\ UNCHANGED <<min_rank, _sent_flags, _score_cache, _analysis_counts, live,
                   pos, mpc, alert, observed, delivered, removed,
                   analyzerVars, cacheVars, retryVars, ownerVars>>

\* the fixtures of the feed whose status is not a finished one
InPlay(feed) ==
    {feed[i].fixtureId : i \in {j \in 1..Len(feed) : feed[j].status \notin finished_status}}

\* lines 352-376: the matches are fetched, _cleanup_finished runs, and the
\* analysis of a non-empty list is handed to the for-loop
Scan(feed) ==
    /\ mpc = "wait"
    /\ scans < MaxScans
    /\ scans' = scans + 1
    /\ LET gone == Cleaned(feed, _sent_flags)
       IN  /\ _sent_flags' = Pop(_sent_flags, gone)
           /\ _score_cache' = Pop(_score_cache, gone)
           /\ _analysis_counts' = Pop(_analysis_counts, gone)
           /\ observed' = Pop(observed, gone)
           /\ removed' = gone
    /\ delivered' = Pop(delivered, DOMAIN delivered \ InPlay(feed))
    /\ IF feed = << >>
       THEN UNCHANGED <<live, pos, mpc>>
       ELSE /\ live' = feed
            /\ pos' = 1
            /\ mpc' = "alert"
    /\ UNCHANGED <<min_rank, alert, analyzerVars, cacheVars, retryVars, ownerVars>>

\* lines 198-237 at line 379: _should_alert(match)
ShouldAlert ==
    /\ mpc = "alert"
    /\ pos <= Len(live)
    /\ LET m           == live[pos]
           fixture_key == m.fixtureId
           sent_flags  == Get(_sent_flags, fixture_key, {})
           bets        == NewFlags(m, sent_flags, min_rank)
           goal        == _detect_goal(_score_cache, fixture_key, m, sent_flags)
           new_flags   == bets.flags \cup goal.flags
       IN  /\ _sent_flags' = Put(_sent_flags, fixture_key, sent_flags)
           /\ _score_cache' = goal.cache
           /\ observed' = Put(observed, fixture_key, m)
           /\ IF new_flags = {}
              THEN /\ alert' = NoAlert
                   /\ pos' = pos + 1
                   /\ mpc' = "alert"
              ELSE /\ alert' = Alert(fixture_key, m.recommendedBets, new_flags,
                                     bets.events \o goal.events)
                   /\ pos' = pos
                   /\ mpc' = "send"
    /\ UNCHANGED <<min_rank, _analysis_counts, scans, live, delivered, removed,
                   analyzerVars, cacheVars, retryVars, ownerVars>>

SendUnlimited(outcome) ==
    /\ mpc = "send"
    /\ LET fixture_id    == alert.fixture_key
           current_count == Get(_analysis_counts, fixture_id, 0)
           recorded      == Put(_sent_flags, fixture_id,
                                Get(_sent_flags, fixture_id, {}) \cup alert.new_flags)
       IN  IF current_count >= MAX_ALERTS_PER_MATCH + 1
           THEN /\ outcome = "sent"
                /\ _sent_flags' = recorded
                /\ UNCHANGED <<_analysis_counts, delivered>>
           ELSE CASE outcome = "sent" ->
                       /\ _sent_flags' = recorded
                       /\ _analysis_counts' =
                             Put(_analysis_counts, fixture_id, current_count + 1)
                       /\ delivered' =
                             Put(delivered, fixture_id, Get(delivered, fixture_id, 0) + 1)
                  [] outcome = "not_sent" ->
                       /\ _sent_flags' = recorded
                       /\ UNCHANGED <<_analysis_counts, delivered>>
                  [] OTHER ->
                       UNCHANGED <<_sent_flags, _analysis_counts, delivered>>
    /\ pos' = pos + 1
    /\ mpc' = "alert"
    /\ UNCHANGED <<min_rank, _score_cache, scans, live, alert, observed, removed,
                   analyzerVars, cacheVars, retryVars, ownerVars>>

\* lines 383-401: the alert is formatted and, below the limit, sent
Send(outcome) ==
    /\ mpc = "send"
    /\ LET fixture_id    == alert.fixture_key
           current_count == Get(_analysis_counts, fixture_id, 0)
           recorded      == Put(_sent_flags, fixture_id,
                                Get(_sent_flags, fixture_id, {}) \cup alert.new_flags)
       IN  IF current_count >= MAX_ALERTS_PER_MATCH
           THEN /\ outcome = "sent"
                /\ _sent_flags' = recorded
                /\ UNCHANGED <<_analysis_counts, delivered>>
           ELSE CASE outcome = "sent" ->
                       /\ _sent_flags' = recorded
                       /\ _analysis_counts' =
                             Put(_analysis_counts, fixture_id, current_count + 1)
                       /\ delivered' =
                             Put(delivered, fixture_id, Get(delivered, fixture_id, 0) + 1)
                  [] outcome = "not_sent" ->
                       /\ _sent_flags' = recorded
                       /\ UNCHANGED <<_analysis_counts, delivered>>
                  [] OTHER ->
                       UNCHANGED <<_sent_flags, _analysis_counts, delivered>>
    /\ pos' = pos + 1
    /\ mpc' = "alert"
    /\ UNCHANGED <<min_rank, _score_cache, scans, live, alert, observed, removed,
                   analyzerVars, cacheVars, retryVars, ownerVars>>

\* lines 403-404: the for-loop is over and run waits for the next iteration
EndScan ==
    /\ mpc = "alert"
    /\ pos > Len(live)
    /\ live' = << >>
    /\ pos' = 1
    /\ mpc' = "wait"
    /\ removed' = {}
    /\ UNCHANGED <<min_rank, _sent_flags, _score_cache, _analysis_counts, scans,
                   alert, observed, delivered, analyzerVars, cacheVars, retryVars, ownerVars>>

NextMonitor ==
    \/ ScanFail
    \/ \E feed \in FeedInputs : Scan(feed)
    \/ ShouldAlert
    \/ \E outcome \in SendInputs : Send(outcome)
    \/ EndScan

SpecMonitor == InitMonitor /\ [][NextMonitor]_vars

(***************************************************************************)
(* fetcher.py, _request_with_retry (lines 64-113).  A reply is what one    *)
(* requests.get call gives: a response with its status code and its        *)
(* Retry-After header, or a ConnectionError.  A header is absent, the      *)
(* empty string, a decimal number (in tenths), a text that float() rejects *)
(* or "inf", which float() accepts and int() rejects with OverflowError.   *)
(***************************************************************************)
Absent == [kind |-> "absent", tenths |-> 0]

Header(kind) == [kind |-> kind, tenths |-> 0]

Seconds(tenths) == [kind |-> "number", tenths |-> tenths]

Response(status, retry_after) ==
    [kind |-> "response", status |-> status, retry_after |-> retry_after]

ConnectionError == [kind |-> "ConnectionError", status |-> 0, retry_after |-> Absent]

\* "5", "2.7", "0", "1000", "-3.5"
HeaderInputs ==
    { Absent, Header("empty"), Header("text"), Header("inf"),
      Seconds(50), Seconds(27), Seconds(0), Seconds(10000), Seconds(-35) }

ReplyInputs ==
    { ConnectionError }
    \cup { Response(status, Absent) : status \in {200, 401, 404, 500, 503} }
    \cup { Response(429, h) : h \in HeaderInputs }

MaxRetries == 3

\* int(float(raw)): the decimal number without its fraction
IntOfFloat(tenths) ==
    IF tenths >= 0 THEN tenths \div 10 ELSE -((-tenths) \div 10)

\* lines 80-86: the header read as seconds, wait_seconds when it is missing,
\* empty or not a number, kept within 1..300
RetryAfter(raw, wait) ==
    LET retry_after == IF raw.kind = "number" THEN IntOfFloat(raw.tenths)
                       ELSE wait
    IN  Max2(1, Min2(retry_after, 300))

\* line 100
Backoff(wait) == Min2(wait, 120)

Raised(kind) == [kind |-> kind, status |-> 0]

Returned(reply) == [kind |-> "response", status |-> reply.status]

InitRetry ==
    /\ max_retries \in 0..MaxRetries
    /\ attempt = 0
    /\ wait_seconds = 30
    /\ rpc = "request"
    /\ replies = << >>
    /\ slept = << >>
    /\ caller_gets = NoResponse
    /\ NoAnalysis
    /\ NoCache
    /\ NoMonitor
    /\ NoOwner

\* line 77: requests.get raises; nothing in the function catches it
NetworkError(reply) ==
    /\ rpc = "request"
    /\ reply.kind = "ConnectionError"
    /\ replies' = Append(replies, reply)
    /\ rpc' = "raised"
    /\ caller_gets' = Raised("ConnectionError")
    /\ UNCHANGED <<max_retries, attempt, wait_seconds, slept>>
    /\ UNCHANGED <<analyzerVars, cacheVars, monitorVars, ownerVars>>

RateLimitedPatient(reply) ==
    /\ rpc = "request"
    /\ reply.kind = "response"
    /\ reply.status = 429
    /\ replies' = Append(replies, reply)
    /\ IF reply.retry_after.kind = "inf"
       THEN /\ rpc' = "raised"
            /\ caller_gets' = Raised("OverflowError")
            /\ UNCHANGED <<attempt, wait_seconds, slept>>
       ELSE /\ slept' = Append(slept, RetryAfter(reply.retry_after, wait_seconds))
            /\ attempt' = attempt + 1
            /\ wait_seconds' = wait_seconds * 2
            /\ UNCHANGED <<rpc, caller_gets>>
    /\ UNCHANGED max_retries
    /\ UNCHANGED <<analyzerVars, cacheVars, monitorVars, ownerVars>>

\* lines 79-97: a 429
RateLimited(reply) ==
    /\ rpc = "request"
    /\ reply.kind = "response"
    /\ reply.status = 429
    /\ replies' = Append(replies, reply)
    /\ IF reply.retry_after.kind = "inf"
       THEN /\ rpc' = "raised"
            /\ caller_gets' = Raised("OverflowError")
            /\ UNCHANGED <<attempt, wait_seconds, slept>>
       ELSE /\ slept' = Append(slept, RetryAfter(reply.retry_after, wait_seconds))
            /\ attempt' = attempt + 1
            /\ IF attempt' > max_retries
               THEN /\ rpc' = "raised"
                    /\ caller_gets' = Raised("FetchError")
                    /\ UNCHANGED wait_seconds
               ELSE /\ wait_seconds' = wait_seconds * 2
                    /\ UNCHANGED <<rpc, caller_gets>>
    /\ UNCHANGED max_retries
    /\ UNCHANGED <<analyzerVars, cacheVars, monitorVars, ownerVars>>

\* lines 99-111: a 5xx with attempts left
ServerError(reply) ==
    /\ rpc = "request"
    /\ reply.kind = "response"
    /\ reply.status >= 500 /\ attempt < max_retries
    /\ replies' = Append(replies, reply)
    /\ slept' = Append(slept, Backoff(wait_seconds))
    /\ attempt' = attempt + 1
    /\ wait_seconds' = wait_seconds * 2
    /\ UNCHANGED <<max_retries, rpc, caller_gets>>
    /\ UNCHANGED <<analyzerVars, cacheVars, monitorVars, ownerVars>>

\* line 113: every other response is returned
ReturnResponse(reply) ==
    /\ rpc = "request"
    /\ reply.kind = "response"
    /\ reply.status # 429
    /\ ~ (reply.status >= 500 /\ attempt < max_retries)
    /\ replies' = Append(replies, reply)
    /\ rpc' = "returned"
    /\ caller_gets' = Returned(reply)
    /\ UNCHANGED <<max_retries, attempt, wait_seconds, slept>>
    /\ UNCHANGED <<analyzerVars, cacheVars, monitorVars, ownerVars>>

NextRetry ==
    \E reply \in ReplyInputs :
        \/ NetworkError(reply)
        \/ RateLimited(reply)
        \/ ServerError(reply)
        \/ ReturnResponse(reply)

SpecRetry == InitRetry /\ [][NextRetry]_vars

(***************************************************************************)
(* owner_command.py.  A text is None or has a first token, made of a head  *)
(* and possibly "@<bot>", with blanks around it or not, and the rest, the  *)
(* query.  An update has its message under "message", "edited_message" or  *)
(* nowhere; chat_id 0 stands for a message without chat id and the sender  *)
(* "None" for a message without "from".                                    *)
(***************************************************************************)
COMMAND_ALIASES == {"/insight", "/insights", "/analise", "/analisar"}

NoText == [present |-> FALSE, padded |-> FALSE, head |-> "", mention |-> FALSE,
           query |-> ""]

Text(padded, head, mention, query) ==
    [present |-> TRUE, padded |-> padded, head |-> head, mention |-> mention,
     query |-> query]

\* None, "/insight benfica", " /analise@bot benfica ", "/INSIGHTS benfica",
\* "/insight", "/unknown benfica", "insight benfica", "  "
TextInputs ==
    { NoText,
      Text(FALSE, "/insight", FALSE, "benfica"),
      Text(TRUE, "/analise", TRUE, "benfica"),
      Text(FALSE, "/INSIGHTS", FALSE, "benfica"),
      Text(FALSE, "/insight", FALSE, ""),
      Text(FALSE, "/unknown", FALSE, "benfica"),
      Text(FALSE, "insight", FALSE, "benfica"),
      Text(TRUE, "", FALSE, "") }

\* str.lower() on the heads of TextInputs
Lower(head) == IF head = "/INSIGHTS" THEN "/insights" ELSE head

\* str.startswith("/") on the heads of TextInputs
StartsWithSlash(head) == head \notin {"", "insight"}

NoCommand == [found |-> FALSE, command |-> "", query |-> ""]

\* lines 30-41
extract_command(text) ==
    IF ~ text.present \/ text.head = "" THEN NoCommand
    ELSE IF ~ StartsWithSlash(text.head) THEN NoCommand
    ELSE IF Lower(text.head) \notin COMMAND_ALIASES THEN NoCommand
    ELSE [found |-> TRUE, command |-> Lower(text.head), query |-> text.query]

Update(id, via, chat_id, text, sender) ==
    [update_id |-> id, via |-> via, chat_id |-> chat_id, text |-> text,
     sender |-> sender]

Senders == {"7", "8", "9", "None"}

UpdateInputs(id) ==
    { Update(id, "message", c, text, s) :
        c \in {0, 55}, text \in TextInputs, s \in Senders }
    \cup { Update(id, "edited_message", 55, Text(FALSE, "/insight", FALSE, "benfica"), s) :
             s \in Senders }
    \cup { Update(id, "none", 0, NoText, "None") }

SecondUpdates ==
    { Update(11, "message", 55, Text(FALSE, "/insight", FALSE, "benfica"), s) :
        s \in {"7", "9"} }

PayloadInputs ==
    { << >> }
    \cup { <<u>> : u \in UpdateInputs(10) }
    \cup { <<u, v>> : u \in UpdateInputs(10), v \in SecondUpdates }

\* what locate_fixture returns: (None, error), (None, None) or (match, None)
LookupInputs == {"error", "none", "match"}

\* what telegram.send_message meets: both posts pass, the post to the channel
\* fails (caught in send_message), the post to the chat raises
SendingInputs == {"ok", "channel_fails", "raise"}

MaxPolls == 2

\* lines 165-167
ChatOf(update) == IF update.via = "none" THEN 0 ELSE update.chat_id

TextOf(update) == IF update.via = "none" THEN NoText ELSE update.text

\* line 175: str(message.get("from", {}).get("id"))
SenderOf(update) == IF update.via = "none" THEN "None" ELSE update.sender

Work(lookups, analyses, llm_calls, text) ==
    [lookups |-> lookups, analyses |-> analyses, llm_calls |-> llm_calls,
     text |-> text]

HandlingLookupFirst(update, allowed, lookup) ==
    IF ChatOf(update) = 0 THEN Work(0, 0, 0, "none")
    ELSE IF ~ extract_command(TextOf(update)).found THEN Work(0, 0, 0, "none")
    ELSE IF lookup = "error" THEN Work(1, 0, 0, "lookup_error")
    ELSE IF SenderOf(update) \notin allowed THEN Work(1, 0, 0, "refusal")
    ELSE IF lookup = "none" THEN Work(1, 0, 0, "not_found")
    ELSE Work(1, 1, 1, "analysis")

\* lines 165-227: what handling one update calls and the message it builds
Handling(update, allowed, lookup) ==
    IF ChatOf(update) = 0 THEN Work(0, 0, 0, "none")
    ELSE IF ~ extract_command(TextOf(update)).found THEN Work(0, 0, 0, "none")
    ELSE IF SenderOf(update) \notin allowed THEN Work(0, 0, 0, "refusal")
    ELSE IF lookup = "error" THEN Work(1, 0, 0, "lookup_error")
    ELSE IF lookup = "none" THEN Work(1, 0, 0, "not_found")
    ELSE Work(1, 1, 1, "analysis")

\* telegram_client.py, send_message with a chat_id: the post to the chat,
\* then the post to the channel when one is configured
Posts(text, chat_id, channel, sending) ==
    IF text = "none" \/ sending = "raise" THEN << >>
    ELSE <<[text |-> text, to |-> chat_id]>>
         \o (IF channel /\ sending = "ok"
             THEN <<[text |-> text, to |-> -100]>> ELSE << >>)

InitOwner ==
    /\ telegram_owner_id \in {"", "7"}
    /\ telegram_admin_ids \in {{}, {"8"}}
    /\ telegram_channel_id \in BOOLEAN
    /\ allowed_ids = {}
    /\ offset = -1
    /\ inbox = << >>
    /\ upos = 1
    /\ opc = "start"
    /\ polls = 0
    /\ did = Nothing
    /\ NoAnalysis
    /\ NoCache
    /\ NoMonitor
    /\ NoRetry

\* lines 118-131: the allow-list; without one the listener returns 1
Start ==
    /\ opc = "start"
    /\ allowed_ids' = telegram_admin_ids
                      \cup (IF telegram_owner_id # "" THEN {telegram_owner_id} ELSE {})
    /\ opc' = IF allowed_ids' = {} THEN "returned" ELSE "poll"
    /\ UNCHANGED <<telegram_owner_id, telegram_admin_ids, telegram_channel_id,
                   offset, inbox, upos, polls, did>>
    /\ UNCHANGED <<analyzerVars, cacheVars, monitorVars, retryVars>>

\* lines 142-144: the stop event is set
Stop ==
    /\ opc = "poll"
    /\ opc' = "returned"
    /\ UNCHANGED <<telegram_owner_id, telegram_admin_ids, telegram_channel_id,
                   allowed_ids, offset, inbox, upos, polls, did>>
    /\ UNCHANGED <<analyzerVars, cacheVars, monitorVars, retryVars>>

\* lines 145-161: getUpdates fails, the listener waits and polls again
PollFail ==
    /\ opc = "poll"
    /\ polls < MaxPolls
    /\ polls' = polls + 1
    /\ UNCHANGED <<telegram_owner_id, telegram_admin_ids, telegram_channel_id,
                   allowed_ids, offset, inbox, upos, opc, did>>
    /\ UNCHANGED <<analyzerVars, cacheVars, monitorVars, retryVars>>

\* lines 145-163: getUpdates answers with the updates of `payload`
Poll(payload) ==
    /\ opc = "poll"
    /\ polls < MaxPolls
    /\ polls' = polls + 1
    /\ inbox' = payload
    /\ upos' = 1
    /\ did' = Nothing
    /\ opc' = IF payload = << >> THEN "poll" ELSE "update"
    /\ UNCHANGED <<telegram_owner_id, telegram_admin_ids, telegram_channel_id,
                   allowed_ids, offset>>
    /\ UNCHANGED <<analyzerVars, cacheVars, monitorVars, retryVars>>

\* lines 163-228: one pass of the for-loop; an exception of send_message is
\* not caught and ends the listener
HandleUpdate(lookup, sending) ==
    /\ opc = "update"
    /\ upos <= Len(inbox)
    /\ LET update == inbox[upos]
           work   == Handling(update, allowed_ids, lookup)
       IN  /\ extract_command(TextOf(update)).query = "" => lookup = "error"
           /\ work.lookups = 0 => lookup = "error"
           /\ work.text = "none" => sending = "ok"
           /\ ~ telegram_channel_id => sending # "channel_fails"
           /\ offset' = Max2(IF offset = -1 THEN 0 ELSE offset, update.update_id + 1)
           /\ did' = [lookups |-> work.lookups, analyses |-> work.analyses,
                      llm_calls |-> work.llm_calls,
                      sent |-> Posts(work.text, ChatOf(update),
                                     telegram_channel_id, sending)]
           /\ opc' = IF work.text # "none" /\ sending = "raise"
                     THEN "crashed" ELSE "update"
    /\ upos' = upos + 1
    /\ UNCHANGED <<telegram_owner_id, telegram_admin_ids, telegram_channel_id,
                   allowed_ids, inbox, polls>>
    /\ UNCHANGED <<analyzerVars, cacheVars, monitorVars, retryVars>>

\* the for-loop is through
EndPayload ==
    /\ opc = "update"
    /\ upos > Len(inbox)
    /\ opc' = "poll"
    /\ inbox' = << >>
    /\ upos' = 1
    /\ did' = Nothing
    /\ UNCHANGED <<telegram_owner_id, telegram_admin_ids, telegram_channel_id,
                   allowed_ids, offset, polls>>
    /\ UNCHANGED <<analyzerVars, cacheVars, monitorVars, retryVars>>

NextOwner ==
    \/ Start
    \/ Stop
    \/ PollFail
    \/ \E payload \in PayloadInputs : Poll(payload)
    \/ \E lookup \in LookupInputs, sending \in SendingInputs :
          HandleUpdate(lookup, sending)
    \/ EndPayload

SpecOwner == InitOwner /\ [][NextOwner]_vars

(***************************************************************************)
(* Properties                                                              *)
(***************************************************************************)
WinnerFields == {"homeWinProbability", "drawProbability", "awayWinProbability"}

GoalsFields == {"over25Probability", "under25Probability"}

BttsFields == {"bttsYesProbability", "bttsNoProbability"}

Triples == {WinnerFields, GoalsFields, BttsFields}

\* the input a result entry was computed from
InputOf(entry) == matches[entry.id]

Entries == {analyzed[i] : i \in 1..Len(analyzed)}

\* the 1X2 field an outcome label stands for, "" when it stands for none
WinnerFieldOf(label) ==
    LET l == _normalize_label(label)
    IN  IF l \in HOME_LABELS THEN "homeWinProbability"
        ELSE IF l \in DRAW_LABELS THEN "drawProbability"
        ELSE IF l \in AWAY_LABELS THEN "awayWinProbability"
        ELSE ""

IsWinnerMarket(market) == _normalize_market_name(market.name) = "match_winner"

HasAllWinnerLabels(market) ==
    \A f \in WinnerFields :
        \E j \in 1..Len(market.values) : WinnerFieldOf(market.values[j].value) = f

\* the match_winner market analyze_matches reads: the first one with values
FirstWinnerMarket(odds) ==
    LET ks == {k \in 1..Len(odds) : IsWinnerMarket(odds[k]) /\ odds[k].values # << >>}
    IN  IF ks = {} THEN << >>
        ELSE odds[CHOOSE k \in ks : \A k2 \in ks : k <= k2].values

\* the probability the market implies for a field: that of its last entry
\* carrying the label, 0 without such an entry
Implied(values, f) ==
    LET js == {j \in 1..Len(values) : WinnerFieldOf(values[j].value) = f}
    IN  IF js = {} THEN 0
        ELSE _calculate_probability(values[CHOOSE j \in js : \A j2 \in js : j >= j2].odd)

\* C1 as stated: with a match_winner market that has recognized home, draw
\* and away labels, every 1X2 field of the entry is the probability implied
\* by the price of an entry of that market for that outcome, whatever forebet,
\* vendor and form data the match carries.
C1_MarketAlwaysWins ==
    \A e \in Entries :
        \A k \in 1..Len(InputOf(e).odds) :
            LET market == InputOf(e).odds[k]
            IN  (IsWinnerMarket(market) /\ HasAllWinnerLabels(market)
                 /\ market.values = FirstWinnerMarket(InputOf(e).odds))
                => \A f \in WinnerFields :
                      \E j \in 1..Len(market.values) :
                          /\ WinnerFieldOf(market.values[j].value) = f
                          /\ e.predictions[f] = _calculate_probability(market.values[j].odd)

\* C1 amended: every 1X2 field for which the match_winner market implies a
\* nonzero probability equals that probability exactly, whatever forebet,
\* vendor and form data the match carries.
C1_NonzeroMarketWins ==
    \A e \in Entries :
        LET values == FirstWinnerMarket(InputOf(e).odds)
        IN  \A f \in WinnerFields :
                Implied(values, f) # 0 => e.predictions[f] = Implied(values, f)

\* a market with all three labels priced, against forebet, vendor and form
\* data that all propose other 1X2 values
C1_Witness ==
    \E e \in Entries :
        LET m == InputOf(e)
            values == FirstWinnerMarket(m.odds)
        IN  /\ \A f \in WinnerFields : Implied(values, f) # 0
            /\ m.forebet.present /\ m.forebet.values["homeWinProbability"].kind = "num"
            /\ m.apiFootballPrediction.present
            /\ m.apiFootballPrediction.values["homeWinProbability"].kind = "num"
            /\ m.form.home.present /\ m.form.away.present
            /\ e.predictions["homeWinProbability"] = Implied(values, "homeWinProbability")

\* C2 as stated: the fields of a triple that were populated all have the
\* same source.
C2_OneSourcePerTriple ==
    pc = "finish" =>
        \A T \in Triples : \A f, g \in T :
            (source[f] # "none" /\ source[g] # "none") => source[f] = source[g]

\* C2 amended: the form heuristic is never blended with another source: a
\* triple with a field written by the heuristic has no field written by the
\* market, forebet or vendor stage (those three may share a triple).
C2_HeuristicNotBlended ==
    pc = "finish" =>
        \A T \in Triples :
            (\E f \in T : source[f] = "heuristic")
            => \A g \in T : source[g] \in {"heuristic", "none"}

\* one triple from the heuristic next to a triple shared by market and forebet
C2_Witness ==
    /\ pc = "finish"
    /\ \E T \in Triples : \A f \in T : source[f] = "heuristic"
    /\ \E T \in Triples : \E f, g \in T : source[f] = "market" /\ source[g] = "forebet"

LaterStages == {"forebet", "vendor", "recommend", "notes", "heuristic", "finish"}

\* C3: the forebet and vendor stages change a field only when it is 0 and
\* only to a value in 1..100, and no stage after the market stage changes a
\* field that is nonzero.
FallbackFrame ==
    pc \in LaterStages =>
        \A f \in Fields :
            /\ predictions[f] # 0 => predictions'[f] = predictions[f]
            /\ (pc \in {"forebet", "vendor"} /\ predictions'[f] # predictions[f])
               => predictions'[f] \in 1..100

C3_FallbackFrame == [][FallbackFrame]_vars

\* after the vendor stage: a field kept from the market although forebet
\* proposed a value, a field kept from forebet although the vendor proposed
\* one, and a field the vendor filled
C3_Witness ==
    /\ pc = "recommend"
    /\ \E f \in Fields :
          source[f] = "market" /\ match.forebet.values[f].kind = "num"
          /\ match.forebet.values[f].v > 0
    /\ \E f \in Fields :
          source[f] = "forebet" /\ match.apiFootballPrediction.values[f].kind = "num"
    /\ \E f \in Fields : source[f] = "vendor"

\* C4: the heuristic stage leaves every field of a triple alone when a field
\* of that triple is nonzero before it.
NoBackfill ==
    pc = "heuristic" =>
        \A T \in Triples :
            (\E f \in T : predictions[f] # 0)
            => \A g \in T : predictions'[g] = predictions[g]

C4_NoBackfill == [][NoBackfill]_vars

\* a triple with a zero and a nonzero field after the heuristic stage, with
\* form data for both sides
C4_Witness ==
    /\ pc = "finish"
    /\ match.form.home.present /\ match.form.away.present
    /\ \E T \in Triples : \E f, g \in T : predictions[f] # 0 /\ predictions[g] = 0
    /\ \E T \in Triples : \A f \in T : source[f] = "heuristic"

\* C5 as stated: no odds, no forebet or vendor prediction, a FormSummary for
\* both sides: the 1X2 fields of the entry sum to 100.
C5_FormSplitSumsTo100 ==
    \A e \in Entries :
        LET m == InputOf(e)
        IN  (m.odds = << >> /\ ~m.forebet.present /\ ~m.apiFootballPrediction.present
             /\ m.form.home.present /\ m.form.away.present)
            => e.predictions["homeWinProbability"] + e.predictions["drawProbability"]
               + e.predictions["awayWinProbability"] = 100

HasBet(e, kinds) ==
    \E i \in 1..Len(e.recommendedBets) : e.recommendedBets[i].kind \in kinds

\* C6 as stated: the final probabilities of an entry decide its
\* recommendations, whichever stage produced them.
C6_RecommendationsFollowFinal ==
    \A e \in Entries :
        LET p == e.predictions
        IN  /\ p["over25Probability"] >= 60 => HasBet(e, {"over25"})
            /\ (p["under25Probability"] >= 60 /\ p["over25Probability"] < 60)
               => HasBet(e, {"under25"})
            /\ MaxProbability(p) >= 55 => HasBet(e, {"favorite", "strong_favorite"})
            /\ p["bttsYesProbability"] >= 60 => HasBet(e, {"btts_yes"})
            /\ (p["bttsNoProbability"] >= 60 /\ p["bttsYesProbability"] < 60)
               => HasBet(e, {"btts_no"})

\* the points the claim gives to an entry
FavoritePoints(e) ==
    IF HasBet(e, {"strong_favorite"}) THEN 3
    ELSE IF HasBet(e, {"favorite"}) THEN 2 ELSE 0

ClaimedScore(e, form) ==
    FavoritePoints(e)
    + (IF HasBet(e, {"over25", "under25"}) THEN 2 ELSE 0)
    + (IF HasBet(e, {"btts_yes", "btts_no"}) THEN 1 ELSE 0)
    + (IF form.home.present /\ form.home.streakType = "win"
          /\ form.home.streakCount >= 3 THEN 1 ELSE 0)
    + (IF form.away.present /\ form.away.streakType = "loss"
          /\ form.away.streakCount >= 2 THEN 1 ELSE 0)
    + (IF form.headToHead.present /\ form.headToHead.homeWins >= 3 THEN 1 ELSE 0)

\* the entry FinishMatch has just appended
Finished == pc = "loop" /\ idx > 1 /\ matches[idx - 1].odds # << >>

Denoted(p) ==
    CASE p.kind \in {"none", "text"} -> [is |-> "unparseable", n |-> 0, d |-> 1]
      [] p.kind \in {"num", "str"} ->
            IF p.a > 0 THEN [is |-> "pos", n |-> p.a, d |-> p.b]
            ELSE [is |-> "nonpos", n |-> 0, d |-> 1]
      [] p.kind = "frac" ->
            IF p.b = 0 THEN [is |-> "unparseable", n |-> 0, d |-> 1]
            ELSE IF p.b > 0 /\ p.b + p.a > 0 THEN [is |-> "pos", n |-> p.b + p.a, d |-> p.b]
            ELSE IF p.b < 0 /\ p.b + p.a < 0 THEN [is |-> "pos", n |-> -(p.b + p.a), d |-> -p.b]
            ELSE [is |-> "nonpos", n |-> 0, d |-> 1]

\* C8 as stated: round(100 / p) for a price that denotes p > 0, and 0 for a
\* price that denotes p <= 0 or cannot be parsed.
C8_ProbabilityOfPrice ==
    pc = "return" =>
        IF Denoted(odd).is = "pos"
        THEN probability = PyRound(100 * Denoted(odd).d, Denoted(odd).n)
        ELSE probability = 0

\* C9 as stated: every probability field of every entry is in 0..100.
C9_FieldsInRange ==
    \A e \in Entries : \A f \in Fields : e.predictions[f] \in 0..100

\* the ranking key of the claim
RankKey(e) ==
    (CASE e.confidence = "high" -> 3 [] e.confidence = "medium" -> 2
       [] e.confidence = "low" -> 1 [] OTHER -> 0) * 1000
    + Len(e.recommendedBets) * 10
    + Max3(e.predictions["homeWinProbability"], e.predictions["drawProbability"],
           e.predictions["awayWinProbability"])

\* C10: allMatches holds the analyzed entries by non-increasing key, entries
\* of equal key in input order, and bestMatches is its first 10 entries.
C10_StableRanking ==
    pc = "done" =>
        LET all == result.allMatches
        IN  /\ Len(all) = Len(analyzed)
            /\ \A i \in 1..Len(analyzed) : \E j \in 1..Len(all) : all[j] = analyzed[i]
            /\ \A i, j \in 1..Len(all) :
                  i < j => /\ RankKey(all[i]) >= RankKey(all[j])
                           /\ RankKey(all[i]) = RankKey(all[j]) => all[i].id < all[j].id
            /\ Len(result.bestMatches) = Min2(10, Len(all))
            /\ \A i \in 1..Len(result.bestMatches) : result.bestMatches[i] = all[i]

\* more than ten entries, reordered, with a tie among the first ten and an
\* entry left out of bestMatches
C10_Witness ==
    /\ pc = "done"
    /\ Len(result.allMatches) > 10
    /\ Len(result.bestMatches) = 10
    /\ result.allMatches # analyzed
    /\ \E i, j \in 1..10 :
          i < j /\ RankKey(result.allMatches[i]) = RankKey(result.allMatches[j])
    /\ RankKey(result.allMatches[1]) > RankKey(result.allMatches[11])

\* the matches of a region of the index, by their position in the input
MatchesOf(region) ==
    {i \in 1..Len(matches) :
        matches[i].region.isStr /\ matches[i].region.name = region}

\* the matches whose region is a string the index does not list, or missing
Unbucketed ==
    {i \in 1..Len(matches) :
        ~ \E k \in 1..Len(region_order) : i \in MatchesOf(region_order[k])}

RECURSIVE SumTotals(_, _)
SumTotals(rows, k) ==
    IF k > Len(rows) THEN 0 ELSE rows[k].total + SumTotals(rows, k + 1)

\* C11: the totals of breakdownByRegion add up to the number of analyzed
\* matches whose competition.region is a string of region_order; a match of
\* an unknown or missing region is in no region's total and in no region's
\* matches list, and is still in allMatches.
C11_RegionTotals ==
    pc = "done" =>
        /\ SumTotals(result.breakdownByRegion, 1)
              = Cardinality({i \in 1..Len(matches) : i \notin Unbucketed})
        /\ \A k \in 1..Len(result.breakdownByRegion) :
              result.breakdownByRegion[k].total
                 = Cardinality(MatchesOf(result.breakdownByRegion[k].region))
        /\ \A i \in Unbucketed :
              /\ \A k \in 1..Len(result.bestMatchesByRegion) :
                    LET row == result.bestMatchesByRegion[k]
                    IN  /\ \A j \in 1..Len(row.matches) : row.matches[j].id # i
                        /\ \A j \in 1..Len(row.topMatches) : row.topMatches[j].id # i
              /\ \E j \in 1..Len(result.allMatches) : result.allMatches[j].id = i

\* a list with a match of a listed region, one of an unlisted region and one
\* of no region
C11_Witness ==
    /\ pc = "done"
    /\ \E i \in Unbucketed : matches[i].region.isStr
    /\ \E i \in Unbucketed : ~ matches[i].region.isStr
    /\ SumTotals(result.breakdownByRegion, 1) > 0
    /\ SumTotals(result.breakdownByRegion, 1) < result.totalAnalyzed

\* C12: for the empty list the result has totalAnalyzed 0, no bestMatches
\* and no allMatches, both confidence counts 0, and in breakdownByRegion and
\* bestMatchesByRegion one row per region of region_order, in that order,
\* with total 0 and no matches.
C12_EmptyList ==
    (pc = "done" /\ matches = << >>) =>
        /\ result.totalAnalyzed = 0
        /\ result.bestMatches = << >>
        /\ result.allMatches = << >>
        /\ result.highConfidenceCount = 0
        /\ result.mediumConfidenceCount = 0
        /\ Len(result.breakdownByRegion) = Len(region_order)
        /\ Len(result.bestMatchesByRegion) = Len(region_order)
        /\ \A k \in 1..Len(region_order) :
              /\ result.breakdownByRegion[k].region = region_order[k]
              /\ result.breakdownByRegion[k].total = 0
              /\ result.breakdownByRegion[k].highConfidence = 0
              /\ result.breakdownByRegion[k].mediumConfidence = 0
              /\ result.bestMatchesByRegion[k].region = region_order[k]
              /\ result.bestMatchesByRegion[k].matches = << >>
              /\ result.bestMatchesByRegion[k].topMatches = << >>

C12_Witness ==
    /\ pc = "done"
    /\ matches = << >>
    /\ Len(result.breakdownByRegion) > 0

FieldOf(name, label) ==
    CASE name = "match_winner" -> WinnerFieldOf(label)
      [] name = "goals_over_under" ->
            IF _is_over_25_label(label) THEN "over25Probability"
            ELSE IF _is_under_25_label(label) THEN "under25Probability"
            ELSE ""
      [] name = "both_teams_score" ->
            IF _normalize_label(label) \in YES_LABELS THEN "bttsYesProbability"
            ELSE IF _normalize_label(label) \in NO_LABELS THEN "bttsNoProbability"
            ELSE ""
      [] OTHER -> ""

MarketNames == {"match_winner", "goals_over_under", "both_teams_score"}

\* the values of the first market of that canonical name that has any
FirstMarketNamed(odds, name) ==
    LET ks == {k \in 1..Len(odds) :
                 _normalize_market_name(odds[k].name) = name /\ odds[k].values # << >>}
    IN  IF ks = {} THEN << >>
        ELSE odds[CHOOSE k \in ks : \A k2 \in ks : k <= k2].values

\* C14 as stated: after the market stage a field holds the probability of
\* the first entry of its market whose label stands for the field; later
\* entries with the same label do not change it.
C14_FirstEntryWins ==
    pc = "forebet" =>
        \A name \in MarketNames :
            LET values == FirstMarketNamed(match.odds, name)
            IN  \A f \in Fields :
                    LET js == {j \in 1..Len(values) : FieldOf(name, values[j].value) = f}
                    IN  js # {} =>
                          predictions[f] = _calculate_probability(
                              values[CHOOSE j \in js : \A j2 \in js : j <= j2].odd)

\* C15: of several markets of one canonical name the market stage reads the
\* first that has values and no later one.
C15_FirstMarketWins ==
    pc = "forebet" =>
        predictions =
            ApplyBtts(FirstMarketNamed(match.odds, "both_teams_score"), 1,
              ApplyOverUnder(FirstMarketNamed(match.odds, "goals_over_under"), 1,
                ApplyMatchWinner(FirstMarketNamed(match.odds, "match_winner"), 1,
                                 ZeroPredictions)))

\* two match_winner markets with values, the later one with other prices, and
\* the fields hold the prices of the earlier one
C15_Witness ==
    /\ pc = "forebet"
    /\ \E i, j \in 1..Len(match.odds) :
          /\ i < j
          /\ IsWinnerMarket(match.odds[i]) /\ IsWinnerMarket(match.odds[j])
          /\ match.odds[i].values # << >>
          /\ match.odds[j].values # << >>
          /\ ApplyMatchWinner(match.odds[j].values, 1, ZeroPredictions)
                # ApplyMatchWinner(match.odds[i].values, 1, ZeroPredictions)
          /\ \A f \in WinnerFields :
                predictions[f] = ApplyMatchWinner(match.odds[i].values, 1, ZeroPredictions)[f]

HasHomeWinStreak(form) ==
    form.home.present /\ form.home.streakType = "win" /\ form.home.streakCount >= 3

\* the points of an entry that do not come from the home streak
PointsBesideHomeStreak(e, form) ==
    FavoritePoints(e)
    + (IF HasBet(e, {"over25", "under25"}) THEN 2 ELSE 0)
    + (IF HasBet(e, {"btts_yes", "btts_no"}) THEN 1 ELSE 0)
    + (IF form.away.present /\ form.away.streakType = "loss"
          /\ form.away.streakCount >= 2 THEN 1 ELSE 0)
    + (IF form.headToHead.present /\ form.headToHead.homeWins >= 3 THEN 1 ELSE 0)

\* C16: a match with odds whose home form has a win streak of 3 or more gets
\* the home-streak note and exactly one confidence point for it, whichever
\* source supplied the 1X2 fields.
C16_HomeStreakPoint ==
    (Finished /\ HasHomeWinStreak(matches[idx - 1].form)) =>
        LET e == analyzed[idx - 1]
        IN  /\ \E i \in 1..Len(notes) : notes[i] = "home_streak"
            /\ \E i \in 1..Len(e.analysisNotes) : e.analysisNotes[i] = "home_streak"
            /\ confidence_score = PointsBesideHomeStreak(e, matches[idx - 1].form) + 1

\* a streak of exactly 3 on a match whose 1X2 fields came from forebet
C16_Witness ==
    /\ Finished
    /\ HasHomeWinStreak(matches[idx - 1].form)
    /\ matches[idx - 1].form.home.streakCount = 3
    /\ \A f \in WinnerFields : source[f] = "forebet"
    /\ analyzed[idx - 1].analysisNotes[1] = "home_streak"

\* C17 as stated: when forebet or the vendor prediction supplied a field of
\* the entry, the attribution note of that source has been generated.
C17_SourceAttributed ==
    Finished =>
        /\ (\E f \in Fields : source[f] = "forebet")
              => \E i \in 1..Len(notes) : notes[i] = "forebet"
        /\ (\E f \in Fields : source[f] = "vendor")
              => \E i \in 1..Len(notes) : notes[i] = "api_football"

\* a step that is a call of _load_match_data
Loaded == calls' = calls + 1

\* the file holds a dictionary with a matchData dictionary and a cachedAt time
Readable(file) ==
    file.kind = "payload" /\ file.matchData.isDict /\ file.cachedAt.ok

\* a call in which fetch_matches raised FetchError
FetchFailed ==
    (Loaded /\ fetched'.kind = "error") =>
        LET file == cache_files[date']
        IN  /\ (cache_dir /\ Readable(file) /\ now - file.cachedAt.t <= 12)
                  => ret' = Return(file.matchData, TRUE)
            /\ (\/ ~ cache_dir
                \/ file.kind \in {"missing", "unreadable", "corrupted", "notdict"}
                \/ (file.kind = "payload" /\ ~ file.matchData.isDict)
                \/ (Readable(file) /\ now - file.cachedAt.t > 12))
                  => ret' = Raise("FetchError")

FetchReturned ==
    (Loaded /\ fetched'.kind = "data") =>
        LET data   == fetched'.data
            stored == last_stored[date']
        IN  /\ (data.matches # << >> /\ ret'.kind = "return")
                  => ret' = Return(data, FALSE)
            /\ (/\ data.matches = << >>
                /\ ~ (data.processedFixtures = 0 /\ data.supportedFixtures = 0)
                /\ stored.has
                /\ now - stored.at <= 12)
                  => ret' = Return(stored.data, TRUE)

\* C19: after a call that fetched a non-empty list and stored it, a later
\* call for the same date within 12 hours whose fetch returns no match, its
\* metadata not reporting 0 processed and 0 supported fixtures, returns the
\* data stored last for that date with used_cache = True; a non-empty fetch
\* is never replaced by cached data.
C19_EmptyFetchReusesCache == [][FetchReturned]_vars

\* an empty fetch with 0 processed and 3 supported fixtures, 12 hours after
\* the store, answered from the cache
C19_Witness ==
    /\ fetched = Fetched(MatchData(<< >>, 0, 3))
    /\ ret.kind = "return"
    /\ ret.used_cache
    /\ last_stored[date].has
    /\ ret.data = last_stored[date].data
    /\ now - last_stored[date].at = 12
    /\ calls >= 2

\* the state is one in which run calls _should_alert next
Calling == mpc = "alert" /\ pos <= Len(live)

\* the flags recorded for the fixture of that call
SentBefore == Get(_sent_flags, live[pos].fixtureId, {})

Recommended(m) == {m.recommendedBets[i] : i \in 1..Len(m.recommendedBets)}

\* the recommendation flags of a returned value: "__high__" and the goal
\* flags left out
RecommendationFlags(a) ==
    {flag \in a.new_flags :
        flag # "__high__" /\ \A h, g \in 0..1 : flag # GoalFlag(h, g)}

\* no score is reported, none was recorded, or it is the recorded one
NoScoreChange(m) ==
    \/ ~ m.score.present
    \/ m.fixtureId \notin DOMAIN _score_cache
    \/ _score_cache[m.fixtureId] = <<m.score.home, m.score.away>>

AsClaimed ==
    Calling =>
        LET m == live[pos]
        IN  /\ RecommendationFlags(alert') = Recommended(m) \ SentBefore
            /\ alert'.new_flags \cap SentBefore = {}
            /\ (/\ m.fixtureId \in DOMAIN observed
                /\ observed[m.fixtureId].recommendedBets = m.recommendedBets
                /\ observed[m.fixtureId].score = m.score)
                  => alert'.kind = "none"

\* C20 as stated: _should_alert returns as new flags exactly the
\* recommendations not yet in the fixture's sent flags, never a flag already
\* recorded, and None when the recommendations are those of the last call and
\* the score has not changed.
C20_OnlyUnsentRecommendations == [][AsClaimed]_vars

AsAmended ==
    Calling =>
        LET m    == live[pos]
            rank == CASE m.confidence = "high" -> 2 [] m.confidence = "medium" -> 1
                      [] OTHER -> 0
        IN  /\ RecommendationFlags(alert')
                  = IF rank >= min_rank THEN Recommended(m) \ SentBefore ELSE {}
            /\ alert'.new_flags \cap SentBefore = {}
            /\ (/\ Recommended(m) \subseteq SentBefore
                /\ NoScoreChange(m)
                /\ ~ (rank = 2 /\ rank >= min_rank /\ "__high__" \notin SentBefore))
                  => alert'.kind = "none"

\* C20, amended: for a match at or above min_confidence the recommendation
\* flags _should_alert returns are exactly the recommendations not yet in the
\* fixture's sent flags, and below it there are none; a recorded flag is
\* never returned again while the fixture is tracked; with every
\* recommendation recorded and no score change the call returns None, unless
\* the match is at high confidence and "__high__" is not recorded yet.
C20_UnsentRecommendations == [][AsAmended]_vars

\* a repeated call for a match whose recommendations are recorded returned
\* None, at a confidence that meets the threshold
C20_Witness ==
    /\ mpc = "alert"
    /\ pos > 1
    /\ alert.kind = "none"
    /\ scans >= 2
    /\ live[pos - 1].recommendedBets # << >>
    /\ CONFIDENCE_RANK(live[pos - 1].confidence) >= min_rank
    /\ Recommended(live[pos - 1]) \subseteq Get(_sent_flags, live[pos - 1].fixtureId, {})

\* the place of a note in the order of generation
NoteRank(note) ==
    CASE note = "home_streak"   -> 1
      [] note = "away_streak"   -> 2
      [] note = "many_goals"    -> 3
      [] note = "few_goals"     -> 3
      [] note = "h2h_home_wins" -> 4
      [] note = "h2h_goals"     -> 5
      [] note = "forebet"       -> 6
      [] note = "api_football"  -> 7
      [] OTHER                  -> 0

\* C25: analysisNotes of an entry holds at most 3 notes and is the start of
\* the notes generated for the match, which come in the order home streak,
\* away streak, attack tendency, head-to-head home wins, head-to-head goals,
\* forebet attribution, vendor attribution.
C25_FirstThreeNotes ==
    /\ \A i \in 1..Len(analyzed) : Len(analyzed[i].analysisNotes) <= 3
    /\ Finished =>
          LET kept == analyzed[idx - 1].analysisNotes
          IN  /\ Len(kept) = (IF Len(notes) < 3 THEN Len(notes) ELSE 3)
              /\ \A i \in 1..Len(kept) : kept[i] = notes[i]
              /\ \A i, j \in 1..Len(notes) :
                    i < j => (/\ NoteRank(notes[i]) > 0
                              /\ NoteRank(notes[i]) < NoteRank(notes[j]))

\* all seven notes were generated and the entry has the first three
C25_Witness ==
    /\ Finished
    /\ Len(notes) = 7
    /\ analyzed[idx - 1].analysisNotes = <<"home_streak", "away_streak", "many_goals">>

\* C26: a match without odds is emitted with the seven probabilities 0, no
\* recommended bets, no notes and confidence low, whatever forebet, vendor
\* prediction and form data it has.
C26_NoOddsEntryIsBare ==
    \A i \in 1..Len(analyzed) :
        matches[i].odds = << >> =>
            /\ DOMAIN analyzed[i].predictions =
                  {"homeWinProbability", "drawProbability", "awayWinProbability",
                   "over25Probability", "under25Probability",
                   "bttsYesProbability", "bttsNoProbability"}
            /\ \A f \in DOMAIN analyzed[i].predictions :
                  analyzed[i].predictions[f] = 0
            /\ analyzed[i].recommendedBets = << >>
            /\ analyzed[i].analysisNotes = << >>
            /\ analyzed[i].confidence = "low"

\* a match without odds that has a forebet prediction, a vendor prediction
\* and a home side on a winning streak has been emitted
C26_Witness ==
    \E i \in 1..Len(analyzed) :
        /\ matches[i].odds = << >>
        /\ matches[i].forebet.present
        /\ matches[i].apiFootballPrediction.present
        /\ matches[i].form.home.present
        /\ matches[i].form.home.streakType = "win"
        /\ matches[i].form.home.streakCount >= 3
        /\ analyzed[i].confidence = "low"


\* C23 as stated: a ConnectionError raised by requests.get while retries are
\* left does not end the call; the request is issued again.
C23_RecoversFromNetworkError ==
    (rpc = "raised" /\ caller_gets.kind = "ConnectionError") => attempt >= max_retries

\* C24 as stated: a 401 response is never returned to the caller; the call
\* raises FetchError.
C24_AuthFailureRaises ==
    /\ (rpc = "returned") => caller_gets.status # 401
    /\ (rpc # "request" /\ replies # << >> /\ replies[Len(replies)].status = 401)
          => caller_gets.kind = "FetchError"

\* the replies that were a 429 or a 5xx
Retried(rs) == {i \in 1..Len(rs) : rs[i].status = 429 \/ rs[i].status >= 500}

LastReply == replies[Len(replies)]

\* C28: with max_retries = m the call makes at most m + 1 requests and is
\* over after the last of them; every 429 and every 5xx answered before the
\* call is over has taken one attempt of the same counter; the call raises
\* FetchError exactly when a 429 has taken attempt m + 1; a 5xx that comes
\* when m attempts are taken is returned.
C28_BoundedRequests ==
    /\ Len(replies) <= max_retries + 1
    /\ rpc = "request" =>
          /\ Len(replies) <= max_retries
          /\ Retried(replies) = 1..Len(replies)
          /\ attempt = Len(replies)
    /\ caller_gets.kind = "FetchError" <=>
          (/\ rpc = "raised"
           /\ LastReply.status = 429
           /\ attempt = max_retries + 1
           /\ Cardinality(Retried(replies)) = max_retries + 1)
    /\ (rpc # "request" /\ replies # << >> /\ LastReply.status >= 500)
          => /\ attempt = max_retries
             /\ caller_gets = [kind |-> "response", status |-> LastReply.status]
    /\ (rpc # "request" /\ replies # << >> /\ LastReply.status = 429
          /\ LastReply.retry_after.kind # "inf") => caller_gets.kind = "FetchError"

\* two 5xx and a 429 were retried with max_retries = 3 and the 5xx that came
\* fourth was returned
C28_Witness ==
    /\ max_retries = 3
    /\ rpc = "returned"
    /\ Len(replies) = 4
    /\ replies[1].status = 500
    /\ replies[2].status = 429
    /\ replies[3].status = 503
    /\ caller_gets = [kind |-> "response", status |-> 500]


\* the update the listener has just handled
Handled == inbox[upos - 1]

\* the update has a message whose first word, without a "@<bot>" part and in
\* lower case, is one of the four commands
CarriesCommand(update) ==
    /\ update.via \in {"message", "edited_message"}
    /\ update.text.present
    /\ update.text.head \in {"/insight", "/insights", "/analise", "/analisar",
                             "/INSIGHTS"}

InAllowList(sender) ==
    \/ (telegram_owner_id # "" /\ sender = telegram_owner_id)
    \/ sender \in telegram_admin_ids

\* C29: for an update with a recognized command from a sender outside the
\* allow-list the listener makes no fixture lookup, no analysis and no LLM
\* call, and every message it sends for the update is the refusal.
C29_StrangerIsRefused ==
    (opc \in {"update", "crashed"} /\ upos > 1
        /\ CarriesCommand(Handled) /\ ~ InAllowList(Handled.sender)) =>
        /\ did.lookups = 0
        /\ did.analyses = 0
        /\ did.llm_calls = 0
        /\ \A i \in 1..Len(did.sent) : did.sent[i].text = "refusal"
        /\ (opc = "update" /\ Handled.chat_id # 0) =>
              /\ did.sent # << >>
              /\ did.sent[1].to = Handled.chat_id

\* a stranger's "/analise@bot benfica" has been answered with the refusal
C29_Witness ==
    /\ opc = "update"
    /\ upos > 1
    /\ Handled.sender = "9"
    /\ Handled.text.head = "/analise"
    /\ allowed_ids = {"7", "8"}
    /\ did.lookups = 0
    /\ Len(did.sent) >= 1
    /\ did.sent[1] = [text |-> "refusal", to |-> 55]


\* the rank of a confidence: low < medium < high
RankOf(confidence) ==
    CASE confidence = "high" -> 2 [] confidence = "medium" -> 1 [] OTHER -> 0

RespectsMinimum ==
    Calling =>
        LET m == live[pos]
        IN  /\ (RankOf(m.confidence) < min_rank /\ NoScoreChange(m))
                  => alert'.kind = "none"
            /\ (RankOf(m.confidence) >= min_rank /\ Recommended(m) \ SentBefore # {})
                  => /\ alert'.kind = "alert"
                     /\ alert'.fixture_key = m.fixtureId

\* C21: _should_alert returns None for a match below min_confidence whose
\* score has not changed, whatever it recommends, and an alert for a match at
\* or above min_confidence that has a recommendation not yet sent.
C21_MinimumConfidence == [][RespectsMinimum]_vars

\* a match below the minimum, with an unsent recommendation, got None
C21_Witness ==
    /\ mpc = "alert"
    /\ pos > 1
    /\ alert.kind = "none"
    /\ RankOf(live[pos - 1].confidence) < min_rank
    /\ Recommended(live[pos - 1]) # {}
    /\ Recommended(live[pos - 1]) \cap Get(_sent_flags, live[pos - 1].fixtureId, {}) = {}

GoalFlags(a) == {flag \in a.new_flags : \E h, g \in 0..1 : flag = GoalFlag(h, g)}

GoalEvents(a) == {i \in 1..Len(a.events) : a.events[i].type = "goal"}

GoalOnChange ==
    (Calling /\ live[pos].score.present) =>
        LET m     == live[pos]
            key   == m.fixtureId
            sc    == <<m.score.home, m.score.away>>
            flag  == GoalFlag(m.score.home, m.score.away)
            quiet == GoalFlags(alert') = {} /\ GoalEvents(alert') = {}
        IN  /\ _score_cache'[key] = sc
            /\ key \notin DOMAIN _score_cache => quiet
            /\ (key \in DOMAIN _score_cache /\ _score_cache[key] = sc) => quiet
            /\ (key \in DOMAIN _score_cache /\ _score_cache[key] # sc)
                  => IF flag \in SentBefore THEN quiet
                     ELSE /\ GoalFlags(alert') = {flag}
                          /\ Cardinality(GoalEvents(alert')) = 1
                          /\ \A i \in GoalEvents(alert') :
                                /\ alert'.events[i].home = m.score.home
                                /\ alert'.events[i].away = m.score.away

\* C22: the first observation of a fixture's score is only recorded; a later
\* observation with another score gives exactly one goal event and the flag
\* goal:<home>-<away>, unless that flag is among the fixture's sent flags; an
\* observation with the recorded score gives nothing.
C22_GoalOnScoreChange == [][GoalOnChange]_vars

\* the score went from 0-0 to 1-0 and the call returned the goal
C22_Witness ==
    /\ mpc = "send"
    /\ alert.kind = "alert"
    /\ GoalFlags(alert) = {"goal:1-0"}
    /\ Cardinality(GoalEvents(alert)) = 1
    /\ _score_cache[alert.fixture_key] = <<1, 0>>

\* C27: no fixture gets more than 2 alerts sent while it stays in the live
\* feed with an unfinished status.
C27_AlertLimit ==
    \A fixture \in DOMAIN delivered : delivered[fixture] <= 2

\* two alerts were sent for the fixture and a later alert of the same
\* fixture has been handled without a third one being sent
C27_Witness ==
    /\ mpc = "alert"
    /\ pos > 1
    /\ alert.kind = "alert"
    /\ alert.fixture_key \in DOMAIN delivered
    /\ delivered[alert.fixture_key] = 2
    /\ Cardinality(_sent_flags[alert.fixture_key]) >= 3
    /\ scans >= 3

KeysTracked ==
    /\ DOMAIN _score_cache \subseteq DOMAIN _sent_flags
    /\ DOMAIN _analysis_counts \subseteq DOMAIN _sent_flags

\* the fixtures of a list of matches that are not finished
Unfinished(feed) ==
    {feed[i].fixtureId :
        i \in {j \in 1..Len(feed) :
                 feed[j].status \notin {"FT", "AET", "PEN", "CANC", "ABD", "PST"}}}

\* a step in which run fetched the list `feed` and cleaned up: a list with
\* matches is the one the for-loop is given, the other one is the empty list
AfterCleanup ==
    (mpc = "wait" /\ scans' # scans) =>
        \A feed \in (IF mpc' = "alert" THEN {live'} ELSE {<< >>}) :
            Scan(feed) =>
                (DOMAIN _sent_flags' \cup DOMAIN _score_cache'
                    \cup DOMAIN _analysis_counts') \subseteq Unfinished(feed)

\* C30: every key of _score_cache and of _analysis_counts is a key of
\* _sent_flags at all times, and right after _cleanup_finished(matches) none
\* of the three maps has an entry for a fixture that is absent from matches
\* or finished.
C30_MapsInStep == [][KeysTracked /\ KeysTracked' /\ AfterCleanup]_vars

\* the cleanup has just removed the entries of a fixture reported as finished
C30_Witness ==
    /\ mpc = "alert"
    /\ pos = 1
    /\ live[1].status = "FT"
    /\ live[1].fixtureId \in removed
    /\ live[1].fixtureId \notin DOMAIN _sent_flags

====
